---- MODULE Spec2Model ----
(***************************************************************************)
(* HyperSwitch request dispatcher (lib/hyperswitch.js), the HTTP adaptor   *)
(* around it (lib/server.js) and the filter stacks the router loads        *)
(* (lib/router.js), as a state machine.                                    *)
(*                                                                         *)
(* One external request (or one startup resource request) is in flight at  *)
(* a time.  Every dispatch made while handling it is a frame of `stack`:   *)
(* the frame on top is the dispatch that is currently running, the frames  *)
(* below it are dispatches whose handler is waiting for a sub-request.     *)
(***************************************************************************)
EXTENDS Integers, Sequences, FiniteSets, TLC

\* ------------------------------------------------------------------ bounds

\* Largest recursion cap (options.maxDepth) the model configures.
MaxCap == 2

\* ------------------------------------------------------- program constants

\* `options.maxDepth || 10`
DefaultMaxDepth == 10

\* A response without a `status` field: `undefined >= 100` and
\* `response && response.status` are both false for it, as they are for 0.
NoStatus == 0

\* A request field that is not set on the object (undefined).
Absent == "<absent>"

\* A `headers` or `query` field that refers to no mapping (undefined).
NoRef == 0

\* A `uri` or `url` field that is not set.
NoUri == <<>>

\* Verbs a request arrives with.  The dispatcher works on lower-cased verbs;
\* "GET" is what a handler may pass to request() before it is lower-cased.
Verbs == {"get", "head", "post"}

\* String.prototype.toLowerCase on the verbs of the model.
toLowerCase(m) ==
    CASE m = "GET" -> "get"
      [] m = "HEAD" -> "head"
      [] m = "POST" -> "post"
      [] OTHER -> m

\* ------------------------------------------------------------------ values

\* undefined, as a handler result.
Undefined ==
    [def |-> FALSE, status |-> NoStatus, type |-> "", isError |-> FALSE,
     headers |-> {}, body |-> "empty", depth |-> 0]

\* A response object {status, headers, body}; `type` is body.type, `depth` is
\* body.depth, `isError` is `res instanceof Error`.
Response(status, type, headers, body) ==
    [def |-> TRUE, status |-> status, type |-> type, isError |-> FALSE,
     headers |-> headers, body |-> body, depth |-> 0]

\* new HTTPError(response): an Error carrying the fields of the response.
HTTPError(response) == [response EXCEPT !.def = TRUE, !.isError = TRUE]

\* The settled state of a promise.
Resolved(v) == [state |-> "resolved", val |-> v]
Rejected(e) == [state |-> "rejected", val |-> e]
Pending == [state |-> "pending", val |-> Undefined]

\* ---------------------------------------------------------------- mappings

\* A headers or query object: a set of <<key, value>> entries.
HasKey(map, key) == \E e \in map : e[1] = key

\* map[key] = val
SetKey(map, key, val) == {e \in map : e[1] # key} \cup {<<key, val>>}

\* ------------------------------------------------------------------- URIs

\* A URI is its path, the list of its segments; a trailing "" is a trailing /.
U_pub == <<"v1", "pub">>
U_sys == <<"v1", "sys", "foo">>
U_api == <<"sys", "bar">>
U_loop == <<"v1", "loop">>
U_root == <<"v1", "">>
U_sysdir == <<"v1", "sys", "">>
U_top == <<"">>
U_sysnone == <<"v1", "sys", "none">>
U_none == <<"nope", "">>
U_head == <<"v1", "head">>
U_all == <<"v1", "all">>

Uris ==
    {U_pub, U_sys, U_api, U_loop, U_head, U_all, U_root, U_sysdir, U_top, U_sysnone,
     U_none}

\* ---------------------------------------------------------------- filters

\* A filter entry as _loadFilter builds it; `method` is Absent for a filter
\* loaded from a spec or path stanza and the verb for one loaded from a
\* method stanza.
Filter(name, method) == [name |-> name, method |-> method]

\* _loadRouteFilters(node, spec, scope, method): the filters of a stanza's
\* x-route-filters are appended, in their order, to the filters of the node.
_loadRouteFilters(nodeFilters, names, method) ==
    nodeFilters \o [k \in 1..Len(names) |-> Filter(names[k], method)]

\* The filters of /v1/pub: those of the spec (_handleSwaggerSpec), then those
\* of the path stanza (_handleSwaggerPathSpec), then those of its get, post
\* and head stanzas (_registerMethods).  The head stanza names no handler.
PubFilters ==
    LET specLevel == _loadRouteFilters(<<>>, <<"f1">>, Absent)
        pathLevel == _loadRouteFilters(specLevel, <<"fp">>, Absent)
        getLevel == _loadRouteFilters(pathLevel, <<"f2">>, "get")
        postLevel == _loadRouteFilters(getLevel, <<"f3">>, "post")
    IN  _loadRouteFilters(postLevel, <<"f4">>, "head")

\* x-request-filters and x-sub-request-filters of the root spec.
RequestFilters == <<Filter("rq1", Absent), Filter("rq2", Absent)>>
SubRequestFilters == <<Filter("sq1", Absent)>>

\* ------------------------------------------------------------- route tree

NoMethods == [v \in Verbs \cup {"all"} |-> "none"]

NoMatch ==
    [found |-> FALSE, params |-> Absent, hasValue |-> FALSE,
     methods |-> NoMethods, filters |-> <<>>, xListing |-> FALSE]

Match(params, methods, filters) ==
    [found |-> TRUE, params |-> params, hasValue |-> TRUE,
     methods |-> methods, filters |-> filters, xListing |-> FALSE]

\* Router.route(uri): the lookup of a URI in the route tree that loadSpec
\* installed.  The tree mounts
\*   /v1/pub       get, post   filters f1 (spec), fp (path), f2 (get), f3 (post),
\*                             f4 (head)
\*   /v1/sys/foo   get         filter s1
\*   /{api:sys}/bar get
\*   /v1/loop      get         filter l1
\*   /v1/head      get
\*   /v1/all       all
\* and a lookup of an existing directory (trailing /) matches without a value.
route(uri) ==
    CASE uri = U_pub ->
           Match("{}", [NoMethods EXCEPT !["get"] = "pub", !["post"] = "leaf"], PubFilters)
      [] uri = U_sys ->
           Match("{}", [NoMethods EXCEPT !["get"] = "leaf"], <<Filter("s1", Absent)>>)
      [] uri = U_api ->
           Match("{api:sys}", [NoMethods EXCEPT !["get"] = "leaf"], <<>>)
      [] uri = U_loop ->
           Match("{}", [NoMethods EXCEPT !["get"] = "loop"], <<Filter("l1", Absent)>>)
      [] uri = U_head ->
           Match("{}", [NoMethods EXCEPT !["get"] = "leaf"], <<>>)
      [] uri = U_all ->
           Match("{}", [NoMethods EXCEPT !["all"] = "leaf"], <<>>)
      [] uri \in {U_root, U_sysdir, U_top} ->
           [NoMatch EXCEPT !.found = TRUE, !.params = "{_ls}"]
      [] OTHER -> NoMatch

\* Router.route of the path with its trailing "" replaced by the apiRoot
\* meta segment: /v1/ is an API root, / is a listing root (x-listing).
routeMeta(uri) ==
    CASE uri = U_root -> [NoMatch EXCEPT !.found = TRUE, !.hasValue = TRUE, !.params = "{}"]
      [] uri = U_top -> [NoMatch EXCEPT !.found = TRUE, !.hasValue = TRUE, !.params = "{}",
                                        !.xListing = TRUE]
      [] OTHER -> NoMatch

\* --------------------------------------------------------------- requests

\* A request object.  `headers` and `query` hold references into `heap`
\* (NoRef: the field is not set); the other fields hold values.
Request(uri, method, headers, query) ==
    [uri |-> uri, url |-> NoUri, method |-> method, headers |-> headers,
     query |-> query, body |-> Absent, params |-> Absent]

\* cloneRequest(req): a shallow copy with defaults.  A missing headers or query
\* object is replaced by a new empty one, allocated at fresh and fresh + 1; a
\* present one is shared with the original.
cloneRequest(req, fresh) ==
    [uri |-> IF req.uri # NoUri THEN req.uri ELSE req.url,
     url |-> NoUri,
     method |-> IF req.method # Absent THEN req.method ELSE "get",
     headers |-> IF req.headers # NoRef THEN req.headers ELSE fresh,
     query |-> IF req.query # NoRef THEN req.query ELSE fresh + 1,
     body |-> IF req.body # Absent THEN req.body ELSE "null",
     params |-> IF req.params # Absent THEN req.params ELSE "{}"]

\* HyperSwitch.request: lower-cases the method on the object it was given.
requestLowerCase(req) ==
    IF req.method # Absent THEN [req EXCEPT !.method = toLowerCase(req.method)] ELSE req

\* makeRequest(uri, reqOrBody, method) on its fast path (an object is passed as
\* the first argument of a convenience verb method): sets the method on it.
makeRequest(req, method) == [req EXCEPT !.method = method]

\* _checkMaxRecursionDepth: TRUE when the dispatch is refused.
recursionDepthExceededGE(recursionDepth, cap) == recursionDepth >= cap
_checkMaxRecursionDepth(recursionDepth, cap) == recursionDepth > cap

\* The error _checkMaxRecursionDepth throws.
RecursionError(recursionDepth) ==
    [HTTPError(Response(500, "server_error#request_recursion_depth_exceeded", {}, "content"))
        EXCEPT !.depth = recursionDepth]

\* isSysRequest(req)
isSysRequestParamsOnly(req) == req.params = "{api:sys}"
isSysRequest(req) ==
    \/ req.params = "{api:sys}"
    \/ Len(req.uri) > 1 /\ req.uri[2] = "sys"

\* _checkInternalApiRequest: TRUE when the request is refused.
checkInternalAnyDepth(recursionDepth, req) == isSysRequest(req)
_checkInternalApiRequest(recursionDepth, req) ==
    recursionDepth = 0 /\ isSysRequest(req)

ForbiddenSys == HTTPError(Response(403, "forbidden#sys", {}, "content"))
NotFoundRoute == HTTPError(Response(404, "not_found#route", {}, "content"))
EmptyResponse == HTTPError(Response(500, "server_error#empty_response", {}, "content"))

\* _filteredRequest: the engine-level filter stack of a dispatch made on a
\* context of the given depth.
engineStackSwapped(recursionDepth) ==
    IF recursionDepth = 0 THEN "subrequest" ELSE "request"
engineStack(recursionDepth) ==
    IF recursionDepth = 0 THEN "request" ELSE "subrequest"

engineFilters(stackName) ==
    CASE stackName = "request" -> RequestFilters
      [] stackName = "subrequest" -> SubRequestFilters
      [] OTHER -> <<>>

\* handlerWrapper's test of a filter entry against the request's verb.
filterAppliesNoAlias(filter, method) ==
    filter.method = Absent \/ filter.method = method
filterApplies(filter, method) ==
    ~ (/\ filter.method # Absent
       /\ filter.method # method
       /\ ~ (filter.method = "get" /\ method = "head"))

\* handlerWrapper(filterIdx, hyper, req): the position in `filters` of the
\* filter it invokes, skipping the entries whose method does not apply, or
\* Len(filters) + 1 when it invokes the handler.  `filterIdx` counts the
\* entries already passed.
RECURSIVE handlerWrapper(_, _, _)
handlerWrapper(filters, filterIdx, method) ==
    IF filterIdx < Len(filters)
    THEN IF filterApplies(filters[filterIdx + 1], method)
         THEN filterIdx + 1
         ELSE handlerWrapper(filters, filterIdx + 1, method)
    ELSE Len(filters) + 1

\* _request, "Find a handler.": the handler of a match for a verb, "none" when
\* there is none.  rootMethod is this._rootReq.method (Absent without a root
\* request).
findHandlerGetForAll(match, method, rootMethod) ==
    IF match.methods[method] # "none" THEN match.methods[method]
    ELSE IF match.methods["all"] # "none" THEN match.methods["all"]
    ELSE match.methods["get"]
findHandler(match, method, rootMethod) ==
    IF match.methods[method] # "none" THEN match.methods[method]
    ELSE IF match.methods["all"] # "none" THEN match.methods["all"]
    ELSE IF method = "head" \/ rootMethod = "head" THEN match.methods["get"]
    ELSE "none"

\* _request, the test for the default listing: a GET for a URI ending in /.
wantsListing(req) ==
    req.method = "get" /\ req.uri[Len(req.uri)] = ""

\* _request, the continuation attached to the handler's promise: the outcome of
\* the dispatch for a handler result (`res` is the settled handler promise).
normaliseOnly400(settled) ==
    IF settled.state = "rejected" THEN settled
    ELSE IF ~ settled.val.def THEN Rejected(EmptyResponse)
    ELSE IF settled.val.status >= 400 /\ ~ settled.val.isError
         THEN Rejected(HTTPError(settled.val))
    ELSE settled
normaliseEmptyOnly(settled) ==
    IF settled.state = "rejected" THEN settled
    ELSE IF ~ settled.val.def THEN Rejected(EmptyResponse)
    ELSE settled
normaliseResponse(settled) ==
    IF settled.state = "rejected" THEN settled
    ELSE IF ~ settled.val.def THEN Rejected(EmptyResponse)
    ELSE IF ~ (settled.val.status >= 100 /\ settled.val.status < 400) /\ ~ settled.val.isError
         THEN Rejected(HTTPError(settled.val))
    ELSE settled

\* ------------------------------------------------------------------ state

VARIABLES
    maxDepth,   \* this._priv.options.maxDepth, the recursion cap in effect
    phase,      \* "idle", "external" or "startup" (a request is in flight), "responded"
    stack,      \* the dispatches in flight, outermost first
    objs,       \* the request objects, by reference
    heap,       \* the headers and query objects, by reference
    log,        \* what has run for the request in flight, in order
    client      \* what handleResponse wrote to the client

\* The compiled request chains of lib/handlerTemplate.js.
VARIABLES
    handlerSpec,  \* the spec createHandler is called with
    created,      \* what createHandler did: threw, or returned a handler
    ctx,          \* the ctx of the handler's invocation (model, _doReturn, hyper)
    chain         \* where runStep is: the step, its requests in flight, the outcome

\* Router.loadSpec and main() of lib/server.js.
VARIABLES
    router        \* the loader: the tree, the module cache, the startup so far

dispatchVars == <<maxDepth, phase, stack, objs, heap, log, client>>

chainVars == <<handlerSpec, created, ctx, chain>>

loaderVars == <<router>>

vars == <<dispatchVars, chainVars, loaderVars>>

\* No chain is being compiled or run.
NoHandlerSpec == [kind |-> "none", steps |-> <<>>]
NotCreated == [state |-> "none", message |-> "", steps |-> <<>>]
NoCtx == [model |-> <<>>, _doReturn |-> <<>>, hyper |-> <<>>]
NoChain == [pc |-> "none"]
ChainUnused ==
    /\ handlerSpec = NoHandlerSpec
    /\ created = NotCreated
    /\ ctx = NoCtx
    /\ chain = NoChain

\* No spec is being loaded.
NoRouter == [pc |-> "none"]
LoaderUnused == router = NoRouter

Event(ev, lvl, name) == [ev |-> ev, lvl |-> lvl, name |-> name]

NoClient == [written |-> FALSE, status |-> NoStatus, headers |-> {}, body |-> "empty"]

top == stack[Len(stack)]

SetTop(f) == [stack EXCEPT ![Len(stack)] = f]

\* The request object a dispatch works on.
Req(f) == objs[f.req]

\* A request object as it is at some moment, its mappings included.
Snapshot(req, h) ==
    [obj |-> req,
     headers |-> IF req.headers # NoRef THEN h[req.headers] ELSE {},
     query |-> IF req.query # NoRef THEN h[req.query] ELSE {}]

\* `const childReq = cloneRequest(req)`: the objects after the call.  The copy
\* is a new object, appended; the caller's object is left as it is.
cloneInPlace(o, callerRef, fresh) ==
    Append([o EXCEPT ![callerRef] = cloneRequest(@, fresh)], cloneRequest(o[callerRef], fresh))
cloneObjects(o, callerRef, fresh) ==
    Append(o, cloneRequest(o[callerRef], fresh))

\* _filteredRequest(req) on a context of depth ctxDepth, up to the point where
\* the engine-level filter stack is entered: the frame of the dispatch and the
\* objects it leaves.  `before` is the caller's object as it was before the
\* call, `o` and `h` the objects at this point.  The clone is allocated at
\* Len(o) + 1, its new mappings at Len(h) + 1 and Len(h) + 2.
_filteredRequest(ctxDepth, callerRef, before, o, h) ==
    IF _checkMaxRecursionDepth(ctxDepth, maxDepth)
    THEN [frame |->
            [ctxDepth |-> ctxDepth, before |-> before, caller |-> callerRef,
             req |-> callerRef, engine |-> "none", pc |-> "settled", idx |-> 0,
             eEntered |-> <<>>, rEntered |-> <<>>, match |-> NoMatch,
             handler |-> "none", child |-> FALSE, raw |-> Pending,
             res |-> Rejected(RecursionError(ctxDepth))],
          objs |-> o, heap |-> h]
    ELSE [frame |->
            [ctxDepth |-> ctxDepth, before |-> before, caller |-> callerRef,
             req |-> Len(o) + 1,
             engine |-> engineStack(ctxDepth), pc |-> "engine", idx |-> 0,
             eEntered |-> <<>>, rEntered |-> <<>>, match |-> NoMatch,
             handler |-> "none", child |-> FALSE, raw |-> Pending, res |-> Pending],
          objs |-> cloneObjects(o, callerRef, Len(h) + 1),
          heap |-> h \o <<{}, {}>>]

\* HyperSwitch.request(req)
request(ctxDepth, callerRef, o, h) ==
    _filteredRequest(ctxDepth, callerRef, Snapshot(o[callerRef], h),
                     [o EXCEPT ![callerRef] = requestLowerCase(@)], h)

\* HyperSwitch.prototype[method](req), the convenience verb methods
verbMethod(ctxDepth, callerRef, method, o, h) ==
    _filteredRequest(ctxDepth, callerRef, Snapshot(o[callerRef], h),
                     [o EXCEPT ![callerRef] = makeRequest(@, method)], h)

\* this._rootReq.method of the context a dispatch at level lvl is made on.
rootMethod(lvl) ==
    IF lvl > 1 /\ stack[1].ctxDepth = 0 THEN Req(stack[1]).method ELSE Absent

Init ==
    /\ maxDepth \in 1..MaxCap
    /\ phase = "idle"
    /\ stack = <<>>
    /\ objs = <<>>
    /\ heap = <<>>
    /\ log = <<>>
    /\ client = NoClient
    /\ ChainUnused
    /\ LoaderUnused

\* ---------------------------------------------------------------- adaptor

AcceptChoices == {{}, {<<"accept", "text/html">>}}
QueryChoices == {{}, {<<"path", "/x">>}, {<<"spec", "">>}, {<<"other", "1">>}}

\* handleRequest: builds newReq from the HTTP request (its method lower-cased,
\* its headers and parsed query attached) and dispatches it on the root
\* instance.
HandleRequest ==
    /\ UNCHANGED <<chainVars, loaderVars>>
    /\ phase = "idle"
    /\ \E uri \in Uris, verb \in Verbs, hdrs \in AcceptChoices, qry \in QueryChoices :
         LET d == request(0, 1, <<Request(uri, verb, 1, 2)>>, <<hdrs, qry>>)
         IN  /\ stack' = <<d.frame>>
             /\ objs' = d.objs
             /\ heap' = d.heap
    /\ phase' = "external"
    /\ log' = <<>>
    /\ client' = NoClient
    /\ UNCHANGED maxDepth

\* handleResources: dispatches a resource request on the startup child, the
\* depth-1 instance main() makes of the root instance.
HandleResources ==
    /\ UNCHANGED <<chainVars, loaderVars>>
    /\ phase = "idle"
    /\ \E uri \in Uris, verb \in Verbs :
         LET d == request(1, 1, <<Request(uri, verb, NoRef, NoRef)>>, <<>>)
         IN  /\ stack' = <<d.frame>>
             /\ objs' = d.objs
             /\ heap' = d.heap
    /\ phase' = "startup"
    /\ log' = <<>>
    /\ client' = NoClient
    /\ UNCHANGED maxDepth

\* ------------------------------------------------------------- dispatcher

Running == phase \in {"external", "startup"} /\ stack # <<>>

\* A filter of a stack is invoked: it calls next and attaches a continuation.
\* _createFilteredHandler over the engine-level stack; past its last filter the
\* wrapped handler, _request, is called.
EngineFilterStep ==
    /\ UNCHANGED <<chainVars, loaderVars>>
    /\ Running
    /\ top.pc = "engine"
    /\ LET filters == engineFilters(top.engine)
           k == handlerWrapper(filters, top.idx, Req(top).method)
       IN  IF k <= Len(filters)
           THEN /\ stack' = SetTop([top EXCEPT !.idx = k,
                                               !.eEntered = Append(@, filters[k].name)])
                /\ log' = Append(log, Event("engineIn", Len(stack), filters[k].name))
           ELSE /\ stack' = SetTop([top EXCEPT !.pc = "route", !.idx = 0])
                /\ log' = log
    /\ UNCHANGED <<maxDepth, phase, objs, heap, client>>

\* _request up to the invocation of the filtered handler: route lookup, the
\* /sys check, handler selection, the default listing, the child instance.
RequestRoute ==
    /\ UNCHANGED <<chainVars, loaderVars>>
    /\ Running
    /\ top.pc = "route"
    /\ LET lvl == Len(stack)
           match == route(Req(top).uri)
           req1 == IF match.found THEN [Req(top) EXCEPT !.params = match.params] ELSE Req(top)
           forbidden == match.found /\ _checkInternalApiRequest(top.ctxDepth, req1)
           found == IF match.found
                    THEN findHandler(match, req1.method, rootMethod(lvl))
                    ELSE "none"
           metaMatch == routeMeta(req1.uri)
           listing == /\ found = "none"
                      /\ wantsListing(req1)
                      /\ (match.found \/ metaMatch.found)
           match2 == IF listing
                     THEN IF metaMatch.found THEN metaMatch
                          ELSE [NoMatch EXCEPT !.found = TRUE, !.params = match.params]
                     ELSE match
           handler == IF listing THEN "listing" ELSE found
       IN  IF forbidden
           THEN /\ stack' = SetTop([top EXCEPT !.match = match,
                                               !.pc = "eunwind",
                                               !.res = Rejected(ForbiddenSys)])
                /\ log' = Append(log, Event("forbidden", lvl, "sys"))
           ELSE IF handler = "none"
           THEN /\ stack' = SetTop([top EXCEPT !.match = match,
                                               !.pc = "eunwind",
                                               !.res = Rejected([NotFoundRoute EXCEPT
                                                           !.depth = top.ctxDepth])])
                /\ log' = Append(log, Event("notFound", lvl, "route"))
           ELSE /\ stack' = SetTop([top EXCEPT !.match = match2,
                                               !.handler = handler, !.child = TRUE,
                                               !.pc = "rfilter", !.idx = 0])
                /\ log' = Append(log, Event("makeChild", lvl, handler))
    /\ objs' = [objs EXCEPT ![top.req] =
                   IF route(Req(top).uri).found
                   THEN [Req(top) EXCEPT !.params = route(Req(top).uri).params]
                   ELSE Req(top)]
    /\ UNCHANGED <<maxDepth, phase, heap, client>>

\* _createFilteredHandler over match.filters, on the child instance; past its
\* last filter the handler is called.
RouteFilterStep ==
    /\ UNCHANGED <<chainVars, loaderVars>>
    /\ Running
    /\ top.pc = "rfilter"
    /\ LET filters == top.match.filters
           k == handlerWrapper(filters, top.idx, Req(top).method)
       IN  IF k <= Len(filters)
           THEN /\ stack' = SetTop([top EXCEPT !.idx = k,
                                               !.rEntered = Append(@, filters[k].name)])
                /\ log' = Append(log, Event("routeIn", Len(stack), filters[k].name))
           ELSE /\ stack' = SetTop([top EXCEPT !.pc = "handler"])
                /\ log' = Append(log, Event("handler", Len(stack), top.handler))
    /\ UNCHANGED <<maxDepth, phase, objs, heap, client>>

\* --------------------------------------------------------------- handlers

OkResponse == Response(200, "", {<<"test", "test">>, <<"content-length", "4">>}, "content")

\* What an operation handler may produce: a response, an error status as a
\* plain response, an Error object returned rather than thrown, a response
\* without a status, nothing, or a thrown error.
LeafResults ==
    {Resolved(OkResponse),
     Resolved(Response(404, "not_found", {<<"content-type", "text/plain">>}, "content")),
     Resolved(HTTPError(Response(500, "internal_error", {}, "content"))),
     Resolved(Response(NoStatus, "", {}, "content")),
     Resolved(Undefined),
     Rejected(HTTPError(Response(403, "forbidden", {}, "content")))}

\* URIs the handler of /v1/pub dispatches to.
PubTargets == {U_sys, U_api, U_sysnone}

\* An operation handler that answers by itself.
HandlerLeaf ==
    /\ UNCHANGED <<chainVars, loaderVars>>
    /\ Running
    /\ top.pc = "handler"
    /\ top.handler = "leaf"
    /\ \E r \in LeafResults :
         stack' = SetTop([top EXCEPT !.raw = r, !.res = r, !.pc = "runwind"])
    /\ UNCHANGED <<maxDepth, phase, objs, heap, log, client>>

\* The handler of /v1/loop: `return hyper.get({ uri: <its own route> })` on the
\* child instance it was given.
HandlerLoop ==
    /\ UNCHANGED <<chainVars, loaderVars>>
    /\ Running
    /\ top.pc = "handler"
    /\ top.handler = "loop"
    /\ LET d == verbMethod(top.ctxDepth + 1, Len(objs) + 1, "get",
                           Append(objs, Request(Req(top).uri, Absent, NoRef, NoRef)), heap)
       IN  /\ stack' = Append(SetTop([top EXCEPT !.pc = "wait"]), d.frame)
           /\ objs' = d.objs
           /\ heap' = d.heap
    /\ UNCHANGED <<maxDepth, phase, log, client>>

\* The verbs the handler of /v1/pub makes its sub-request with, as it writes
\* them.
PubMethods == {"GET", "POST"}

\* The handler of /v1/pub: `return hyper.request({ uri: <target>, method: <verb> })`
\* on the child instance it was given.
HandlerPub ==
    /\ UNCHANGED <<chainVars, loaderVars>>
    /\ Running
    /\ top.pc = "handler"
    /\ top.handler = "pub"
    /\ \E target \in PubTargets, verb \in PubMethods :
         LET d == request(top.ctxDepth + 1, Len(objs) + 1,
                          Append(objs, Request(target, verb, NoRef, NoRef)), heap)
         IN  /\ stack' = Append(SetTop([top EXCEPT !.pc = "wait"]), d.frame)
             /\ objs' = d.objs
             /\ heap' = d.heap
    /\ UNCHANGED <<maxDepth, phase, log, client>>

\* defaultListingHandler(match, hyper, req): the outcome and the query object
\* it leaves behind.  swaggerUI, the docs collaborator, answers 200.
defaultListingHandler(match, query, accept) ==
    LET specRoot == match.hasValue
        html == accept = "text/html"
    IN  IF HasKey(query, "spec") /\ specRoot /\ ~ match.xListing
        THEN [res |-> Resolved(Response(200, "", {}, "content")), query |-> query]
        ELSE IF HasKey(query, "path") \/ (specRoot /\ ~ match.xListing /\ html)
        THEN IF \E e \in query : e[1] # "path"
             THEN [res |-> Resolved(Response(301, "", {<<"location", "/">>}, "empty")),
                   query |-> query]
             ELSE [res |-> Resolved(Response(200, "", {}, "content")),
                   query |-> IF HasKey(query, "path") THEN query
                             ELSE SetKey(query, "path", "/index.html")]
        ELSE IF html /\ specRoot /\ match.xListing
        THEN [res |-> Resolved(Response(200, "", {}, "content")),
              query |-> SetKey(query, "path", "/index.html")]
        ELSE [res |-> Resolved(Response(200, "", {}, "content")), query |-> query]

HeaderValue(map, key) ==
    IF HasKey(map, key) THEN (CHOOSE e \in map : e[1] = key)[2] ELSE Absent

\* The default listing handler _request installs for a GET on a URI ending in /.
HandlerListing ==
    /\ UNCHANGED <<chainVars, loaderVars>>
    /\ Running
    /\ top.pc = "handler"
    /\ top.handler = "listing"
    /\ LET out == defaultListingHandler(top.match, heap[Req(top).query],
                                        HeaderValue(heap[Req(top).headers], "accept"))
       IN  /\ stack' = SetTop([top EXCEPT !.raw = out.res, !.res = out.res,
                                          !.pc = "runwind"])
           /\ heap' = [heap EXCEPT ![Req(top).query] = out.query]
    /\ UNCHANGED <<maxDepth, phase, objs, log, client>>

\* A sub-request has settled: the handler that returned its promise settles
\* with the same outcome.
SubRequestSettled ==
    /\ UNCHANGED <<chainVars, loaderVars>>
    /\ Running
    /\ Len(stack) > 1
    /\ top.pc = "settled"
    /\ LET parent == stack[Len(stack) - 1]
       IN  stack' = Append(SubSeq(stack, 1, Len(stack) - 2),
                           [parent EXCEPT !.raw = top.res, !.res = top.res,
                                          !.pc = "runwind"])
    /\ log' = Append(log, Event("subSettled", Len(stack), top.res.state))
    /\ UNCHANGED <<maxDepth, phase, objs, heap, client>>

\* The continuation of the innermost route filter still waiting on `next`.
popContinuationFirst(entered) == [name |-> Head(entered), rest |-> Tail(entered)]
popContinuation(entered) ==
    [name |-> entered[Len(entered)], rest |-> SubSeq(entered, 1, Len(entered) - 1)]

RouteFilterContinuation ==
    /\ UNCHANGED <<chainVars, loaderVars>>
    /\ Running
    /\ top.pc = "runwind"
    /\ top.rEntered # <<>>
    /\ LET c == popContinuation(top.rEntered)
       IN  /\ stack' = SetTop([top EXCEPT !.rEntered = c.rest])
           /\ log' = Append(log, Event("routeOut", Len(stack), c.name))
    /\ UNCHANGED <<maxDepth, phase, objs, heap, client>>

\* _request, the continuation on the filtered handler's promise.
NormaliseResponse ==
    /\ UNCHANGED <<chainVars, loaderVars>>
    /\ Running
    /\ top.pc = "runwind"
    /\ top.rEntered = <<>>
    /\ stack' = SetTop([top EXCEPT !.res = normaliseResponse(top.res), !.pc = "eunwind"])
    /\ log' = Append(log, Event("normalise", Len(stack), top.res.state))
    /\ UNCHANGED <<maxDepth, phase, objs, heap, client>>

EngineFilterContinuation ==
    /\ UNCHANGED <<chainVars, loaderVars>>
    /\ Running
    /\ top.pc = "eunwind"
    /\ top.eEntered # <<>>
    /\ LET c == popContinuation(top.eEntered)
       IN  /\ stack' = SetTop([top EXCEPT !.eEntered = c.rest])
           /\ log' = Append(log, Event("engineOut", Len(stack), c.name))
    /\ UNCHANGED <<maxDepth, phase, objs, heap, client>>

\* The promise _filteredRequest returned settles: the caller observes the outcome.
DispatchSettled ==
    /\ UNCHANGED <<chainVars, loaderVars>>
    /\ Running
    /\ top.pc = "eunwind"
    /\ top.eEntered = <<>>
    /\ stack' = SetTop([top EXCEPT !.pc = "settled"])
    /\ log' = Append(log, Event("settled", Len(stack), top.res.state))
    /\ UNCHANGED <<maxDepth, phase, objs, heap, client>>

\* ------------------------------------------------------- adaptor, response

\* utils.removeHopToHopHeaders(rh, false)
HopToHopHeaders ==
    {"connection", "keep-alive", "public", "proxy-authenticate",
     "transfer-encoding", "content-length"}

removeHopToHopHeaders(rh) == {e \in rh : e[1] \notin HopToHopHeaders}

DefaultHeader(rh, key, val) == IF HasKey(rh, key) THEN rh ELSE SetKey(rh, key, val)

\* handleRequest's catch: an error without a status gets 500.
catchError(e) == IF e.status = NoStatus THEN [e EXCEPT !.status = 500] ELSE e

\* handleResponse(opts, req, resp, response): what is written to the client
\* for a request with the given method.  Requests of the model carry no
\* accept-encoding and responses no content-encoding, so nothing is (un)zipped.
handleResponseKeepBody(method, response) ==
    [written |-> TRUE, status |-> response.status, headers |-> response.headers,
     body |-> response.body]
handleResponse(method, response) ==
    IF response.def /\ response.status # NoStatus
    THEN LET rh1 == removeHopToHopHeaders(response.headers)
             rh2 == DefaultHeader(rh1, "cache-control",
                                  "private, max-age=0, s-maxage=0, must-revalidate")
             rh3 == SetKey(SetKey(rh2, "x-request-id", "reqId"), "server", "hostname")
             rh4 == IF response.status >= 400
                    THEN SetKey(rh3, "content-type", "application/problem+json")
                    ELSE rh3
             body1 == IF response.status >= 400 THEN "content" ELSE response.body
             body2 == IF method = "head" THEN "empty" ELSE body1
         IN  [written |-> TRUE, status |-> response.status,
              headers |-> IF body2 # "empty" THEN SetKey(rh4, "content-length", "len")
                          ELSE rh4,
              body |-> body2]
    ELSE [written |-> TRUE, status |-> 500,
          headers |-> SetKey(response.headers, "content-type", "application/problem+json"),
          body |-> IF method = "head" THEN "empty" ELSE "content"]

\* handleRequest, after opts.hyper.request(newReq) has settled: the result, or
\* the caught error, is written to the client.
HandleResponse ==
    /\ UNCHANGED <<chainVars, loaderVars>>
    /\ phase = "external"
    /\ Len(stack) = 1
    /\ top.pc = "settled"
    /\ client' = handleResponse(objs[top.caller].method,
                                IF top.res.state = "rejected"
                                THEN catchError(top.res.val) ELSE top.res.val)
    /\ phase' = "responded"
    /\ UNCHANGED <<maxDepth, stack, objs, heap, log>>

\* handleResources, after hyper.request(req) has settled.
ResourceSettled ==
    /\ UNCHANGED <<chainVars, loaderVars>>
    /\ phase = "startup"
    /\ Len(stack) = 1
    /\ top.pc = "settled"
    /\ phase' = "responded"
    /\ UNCHANGED <<maxDepth, stack, objs, heap, log, client>>

\* The request is over; its objects are dropped.
RequestDone ==
    /\ UNCHANGED <<chainVars, loaderVars>>
    /\ phase = "responded"
    /\ phase' = "idle"
    /\ stack' = <<>>
    /\ objs' = <<>>
    /\ heap' = <<>>
    /\ log' = <<>>
    /\ client' = NoClient
    /\ UNCHANGED maxDepth

Next ==
    \/ HandleRequest
    \/ HandleResources
    \/ EngineFilterStep
    \/ RequestRoute
    \/ RouteFilterStep
    \/ HandlerLeaf
    \/ HandlerLoop
    \/ HandlerPub
    \/ HandlerListing
    \/ SubRequestSettled
    \/ RouteFilterContinuation
    \/ NormaliseResponse
    \/ EngineFilterContinuation
    \/ DispatchSettled
    \/ HandleResponse
    \/ ResourceSettled
    \/ RequestDone

Spec == Init /\ [][Next]_vars

\* ------------------------------------------------------------ properties

Levels == 1..Len(stack)

\* Something of the given kinds has run for the dispatch at level lvl.
RanAt(lvl, evs) == \E i \in 1..Len(log) : log[i].lvl = lvl /\ log[i].ev \in evs

\* The events of the given kinds for the dispatch at level lvl, in order.
LogAt(lvl, evs) == SelectSeq(log, LAMBDA e : e.lvl = lvl /\ e.ev \in evs)

NamesOf(events) == [i \in 1..Len(events) |-> events[i].name]

Reverse(seq) == [i \in 1..Len(seq) |-> seq[Len(seq) + 1 - i]]

\* The external request has settled.
RootSettled == Len(stack) = 1 /\ stack[1].pc = "settled"

LoopEntries == Len(SelectSeq(log, LAMBDA e : e.ev = "handler" /\ e.name = "loop"))

\* C1: for the cap N in effect, the self-dispatching handler of an external
\* request is entered exactly N+1 times; the dispatch of the (N+1)-th entry is
\* refused before any filter or routing runs for it, with 500
\* request_recursion_depth_exceeded and depth N+1, and that error is the outcome
\* of the external request (and what the client is sent).
C1_RecursionCap ==
    (stack # <<>> /\ stack[1].ctxDepth = 0 /\ stack[1].handler = "loop") =>
        /\ LoopEntries <= maxDepth + 1
        /\ \A i \in 1..Len(log) :
             log[i].lvl = maxDepth + 2 => log[i].ev = "subSettled"
        /\ RootSettled =>
             /\ LoopEntries = maxDepth + 1
             /\ stack[1].res.state = "rejected"
             /\ stack[1].res.val.status = 500
             /\ stack[1].res.val.type = "server_error#request_recursion_depth_exceeded"
             /\ stack[1].res.val.depth = maxDepth + 1
             /\ client.written => client.status = 500

C1_Witness ==
    /\ RootSettled
    /\ stack[1].ctxDepth = 0
    /\ stack[1].handler = "loop"
    /\ maxDepth = MaxCap
    /\ LoopEntries = MaxCap + 1

\* A route with a value whose second segment is `sys` or whose api parameter is `sys`.
SysMounted(uri) ==
    /\ route(uri).hasValue
    /\ \/ route(uri).params = "{api:sys}"
       \/ Len(uri) > 1 /\ uri[2] = "sys"

\* The verb has a handler of its own on the route.
HasOwnHandler(uri, verb) == route(uri).methods[verb] # "none"

Routed(f) == f.pc \notin {"engine", "route"} /\ f.engine # "none"

HandlerDue(f) == f.pc \in {"handler", "wait", "runwind", "eunwind", "settled"}

SuccessShaped(settled) ==
    /\ settled.state = "resolved"
    /\ settled.val.def
    /\ settled.val.status >= 100
    /\ settled.val.status < 400

\* C2 as stated: on depth 0 neither the handler of a sys route nor any of its
\* route filters runs; on every depth >= 1 the handler is reached and its
\* response returned.
C2_Original ==
    \A i \in Levels :
      LET f == stack[i]
          r == objs[f.req]
      IN  (SysMounted(r.uri) /\ HasOwnHandler(r.uri, toLowerCase(r.method))) =>
            /\ f.ctxDepth = 0 => ~ f.child /\ ~ RanAt(i, {"routeIn", "handler", "makeChild"})
            /\ (f.ctxDepth >= 1 /\ f.pc = "settled") => RanAt(i, {"handler"})

\* C2, amended: on depth 0 neither the handler of a sys route nor any of its
\* route filters runs; on a depth from 1 up to the recursion cap the dispatch is
\* routed to the mounted handler on a child instance, the handler is invoked,
\* and a success response it gives is the resolved outcome of the dispatch.
C2_SysOnlyInternal ==
    \A i \in Levels :
      LET f == stack[i]
          r == objs[f.req]
      IN  (SysMounted(r.uri) /\ HasOwnHandler(r.uri, toLowerCase(r.method))) =>
            /\ f.ctxDepth = 0 => ~ f.child /\ ~ RanAt(i, {"routeIn", "handler", "makeChild"})
            /\ (f.ctxDepth >= 1 /\ f.ctxDepth <= maxDepth) =>
                 /\ f.engine # "none"
                 /\ Routed(f) =>
                      /\ f.child
                      /\ f.handler = route(r.uri).methods[r.method]
                 /\ HandlerDue(f) => RanAt(i, {"handler"})
                 /\ (f.pc = "settled" /\ SuccessShaped(f.raw)) => f.res = f.raw
                 /\ f.pc = "settled" => f.res # Rejected(ForbiddenSys)

\* A sys handler has answered a sub-request the handler of /v1/pub made for an
\* external request.
C2_Witness ==
    /\ Len(stack) = 2
    /\ stack[1].ctxDepth = 0
    /\ objs[stack[2].req].uri = U_sys
    /\ stack[2].pc = "settled"
    /\ stack[2].res = Resolved(OkResponse)

\* C3 as stated: every depth-0 request whose second segment is `sys` ends 403
\* forbidden#sys, matched by the router or not.
C3_Original ==
    \A i \in Levels :
      LET f == stack[i]
          r == objs[f.req]
      IN  (f.ctxDepth = 0 /\ Len(r.uri) > 1 /\ r.uri[2] = "sys" /\ f.pc = "settled") =>
            f.res = Rejected(ForbiddenSys)

\* C3, amended: a depth-0 request whose second segment is `sys` ends 403
\* forbidden#sys, for every verb and whether or not a method handler is mounted,
\* when the router matches its URI; when the router matches nothing for it the
\* request is not refused with 403: it ends 404 not_found#route.
C3_DirectSysForbidden ==
    \A i \in Levels :
      LET f == stack[i]
          r == objs[f.req]
      IN  (f.ctxDepth = 0 /\ Len(r.uri) > 1 /\ r.uri[2] = "sys" /\ f.pc = "settled") =>
            /\ route(r.uri).found =>
                 /\ f.res = Rejected(ForbiddenSys)
                 /\ ~ f.child
                 /\ ~ RanAt(i, {"routeIn", "handler"})
            /\ (~ route(r.uri).found /\ ~ routeMeta(r.uri).found) =>
                 /\ f.res.state = "rejected"
                 /\ f.res.val.status = 404
                 /\ f.res.val.type = "not_found#route"

\* A direct POST to a sys route that only mounts GET has been refused with 403.
C3_Witness ==
    /\ RootSettled
    /\ stack[1].ctxDepth = 0
    /\ objs[stack[1].req].uri = U_sys
    /\ objs[stack[1].req].method = "post"
    /\ stack[1].res = Rejected(ForbiddenSys)

RouteIns(i) == NamesOf(LogAt(i, {"routeIn"}))
RouteOuts(i) == NamesOf(LogAt(i, {"routeOut"}))

KindsOf(events) == [k \in 1..Len(events) |-> events[k].ev]

Repeat(x, n) == [k \in 1..n |-> x]

Range(seq) == {seq[k] : k \in 1..Len(seq)}

\* The stanza a route filter of the installed tree was declared in: 1 for the
\* spec, 2 for the path, 3 for a method.
StanzaLevel(name) ==
    CASE name = "f1" -> 1
      [] name = "fp" -> 2
      [] OTHER -> 3

\* C5: the route filters of a request are entered in the order of the stack
\* (spec-level before path-level before method-level filters) and
\* then the handler; once the handler's result is there, their continuations run
\* in the reverse order, all of them before the dispatch settles for its caller.
C5_FilterStackDiscipline ==
    \A i \in Levels :
      LET f == stack[i]
          ins == RouteIns(i)
          outs == RouteOuts(i)
          n == Len(ins)
      IN  f.child =>
            /\ ins = NamesOf(SelectSeq(f.match.filters, LAMBDA x : x.name \in Range(ins)))
            /\ \A a, b \in 1..n : a < b => StanzaLevel(ins[a]) <= StanzaLevel(ins[b])
            /\ f.pc \in {"rfilter", "handler", "wait"} => outs = <<>>
            /\ f.pc = "runwind" => outs = SubSeq(Reverse(ins), 1, Len(outs))
            /\ f.pc \in {"eunwind", "settled"} => outs = Reverse(ins)
            /\ f.pc = "settled" =>
                 KindsOf(LogAt(i, {"routeIn", "handler", "routeOut", "settled"})) =
                     Repeat("routeIn", n) \o <<"handler">> \o Repeat("routeOut", n)
                       \o <<"settled">>

\* GET /v1/pub has settled: the spec-level f1, the path-level fp and the get
\* filter f2 were entered in this order and left in the other.
C5_Witness ==
    /\ RootSettled
    /\ stack[1].child
    /\ RouteIns(1) = <<"f1", "fp", "f2">>
    /\ RouteOuts(1) = <<"f2", "fp", "f1">>

EngineIns(i) == NamesOf(LogAt(i, {"engineIn"}))

\* C6 as stated: every dispatch applies exactly one engine-level stack, the
\* request filters on depth 0 and the sub-request filters on depth >= 1.
C6_Original ==
    \A i \in Levels :
      LET f == stack[i] IN
      f.pc \notin {"engine"} =>
        /\ f.ctxDepth = 0 => EngineIns(i) = NamesOf(RequestFilters)
        /\ f.ctxDepth >= 1 => EngineIns(i) = NamesOf(SubRequestFilters)

\* C6, amended: every dispatch that passes the recursion-depth check applies
\* exactly one engine-level stack, the request filters if and only if it is made
\* on depth 0 and the sub-request filters if and only if it is made on depth
\* >= 1; a dispatch the recursion cap refuses applies neither.
C6_OneEngineStack ==
    \A i \in Levels :
      LET f == stack[i] IN
        /\ (f.ctxDepth <= maxDepth /\ f.pc \notin {"engine"}) =>
             /\ f.ctxDepth = 0 => EngineIns(i) = NamesOf(RequestFilters)
             /\ f.ctxDepth >= 1 => EngineIns(i) = NamesOf(SubRequestFilters)
        /\ (f.ctxDepth <= maxDepth /\ f.pc = "engine") =>
             /\ f.ctxDepth = 0 => Range(EngineIns(i)) \subseteq Range(NamesOf(RequestFilters))
             /\ f.ctxDepth >= 1 =>
                  Range(EngineIns(i)) \subseteq Range(NamesOf(SubRequestFilters))
        /\ f.ctxDepth > maxDepth => EngineIns(i) = <<>>

\* An external request and a sub-request of its handler have each run their stack.
C6_Witness ==
    /\ Len(stack) = 2
    /\ stack[1].ctxDepth = 0
    /\ stack[2].pc = "settled"
    /\ EngineIns(1) = <<"rq1", "rq2">>
    /\ EngineIns(2) = <<"sq1">>

\* C7: a route filter registered with method m takes part in a request with
\* verb v if and only if m = v, or m = get and v = head; what else runs (the
\* filters without a method, in order, and the handler) is what would run
\* without the skipped filters.
C7_MethodScopedFilters ==
    \A i \in Levels :
      LET f == stack[i]
          v == objs[f.req].method
          fs == f.match.filters
          TakesPart(x) == x.method = v \/ (x.method = "get" /\ v = "head")
      IN  (f.child /\ HandlerDue(f)) =>
            /\ \A k \in 1..Len(fs) :
                 fs[k].method # Absent =>
                   (fs[k].name \in Range(RouteIns(i)) <=> TakesPart(fs[k]))
            /\ RouteIns(i) =
                 NamesOf(SelectSeq(fs, LAMBDA x : x.method = Absent \/ TakesPart(x)))
            /\ RanAt(i, {"handler"})

\* HEAD /v1/pub: the get filter f2 and the head filter f4 took part, f3 (post) did not.
C7_Witness ==
    /\ RootSettled
    /\ stack[1].child
    /\ objs[stack[1].req].method = "head"
    /\ RouteIns(1) = <<"f1", "fp", "f2", "f4">>

\* The error _request rejects with for a handler result that is a response: an
\* Error object carrying the fields of the response.
IsErrorOf(e, response) ==
    /\ e.isError
    /\ e.status = response.status
    /\ e.body = response.body
    /\ e.headers = response.headers
    /\ e.type = response.type

\* C8 as stated: a handler that resolves with no result makes the dispatch fail
\* with 500 empty_response; a result whose status is >= 400 and that is not an
\* error object makes it reject with an error of that status and body; every
\* other result is what the dispatch resolves with.
C8_Original ==
    \A i \in Levels :
      LET f == stack[i] IN
      (f.child /\ f.pc \in {"eunwind", "settled"} /\ f.raw.state = "resolved") =>
        IF ~ f.raw.val.def
        THEN f.res = Rejected(EmptyResponse)
        ELSE IF f.raw.val.status >= 400 /\ ~ f.raw.val.isError
        THEN f.res.state = "rejected" /\ IsErrorOf(f.res.val, f.raw.val)
        ELSE f.res = f.raw

\* C8, amended: a handler that resolves with no result makes the dispatch fail
\* with 500 empty_response; a result that is not an error object and whose
\* status is not in 100..399 (>= 400, below 100, or missing) makes it reject
\* with an error carrying the fields of that result; every other result (a
\* status in 100..399, or an error object of any status) is what the dispatch
\* resolves with.
C8_ResponseNormalisation ==
    \A i \in Levels :
      LET f == stack[i] IN
      (f.child /\ f.pc \in {"eunwind", "settled"} /\ f.raw.state = "resolved") =>
        IF ~ f.raw.val.def
        THEN /\ f.res.state = "rejected"
             /\ f.res.val.status = 500
             /\ f.res.val.type = "server_error#empty_response"
        ELSE IF ~ f.raw.val.isError
                /\ (f.raw.val.status >= 400 \/ f.raw.val.status < 100
                    \/ f.raw.val.status = NoStatus)
        THEN f.res.state = "rejected" /\ IsErrorOf(f.res.val, f.raw.val)
        ELSE f.res = f.raw

\* A handler has resolved with a response that has no status, and the dispatch
\* has rejected with it.
C8_Witness ==
    /\ RootSettled
    /\ stack[1].child
    /\ stack[1].raw = Resolved(Response(NoStatus, "", {}, "content"))
    /\ stack[1].res.state = "rejected"

\* The handler the spec of a route gives for a verb: the one registered for
\* the verb, the one registered for all verbs, or the get handler for a head.
OwnHandler(uri, v) ==
    LET ms == route(uri).methods IN
    IF ~ route(uri).found THEN "none"
    ELSE IF ms[v] # "none" THEN ms[v]
    ELSE IF ms["all"] # "none" THEN ms["all"]
    ELSE IF v = "head" THEN ms["get"]
    ELSE "none"

\* A GET for a URI that ends in / and has a listing.
ListingCase(uri, v) ==
    /\ v = "get"
    /\ uri[Len(uri)] = ""
    /\ (route(uri).found \/ routeMeta(uri).found)

\* No handler is selected for a request on a context: none for its verb, and
\* none for get when the request the context is rooted at is a head.
NoHandlerFor(i) ==
    LET uri == objs[stack[i].req].uri
        v == objs[stack[i].req].method
    IN  /\ OwnHandler(uri, v) = "none"
        /\ ~ (rootMethod(i) = "head" /\ OwnHandler(uri, "get") # "none")
        /\ ~ ListingCase(uri, v)

NoChildWork(i) ==
    /\ ~ stack[i].child
    /\ ~ RanAt(i, {"makeChild", "routeIn", "handler"})

\* C9 as stated: a request for which no handler is selected, and that is not a
\* listing request, fails with 404 not_found#route; no child context is made
\* and no route filter or handler runs.
C9_Original ==
    \A i \in Levels :
      (stack[i].pc = "settled" /\ NoHandlerFor(i)) =>
        /\ stack[i].res.state = "rejected"
        /\ stack[i].res.val.status = 404
        /\ stack[i].res.val.type = "not_found#route"
        /\ NoChildWork(i)

\* C9, amended: a request that passes the recursion-depth check, that is not
\* a depth-0 request for a sys URI the router matches, for which no handler is
\* selected and that is not a listing request, fails with 404 not_found#route;
\* no child context is made and no route filter or handler runs.  (The two
\* excluded requests fail earlier, with 500 and 403, also without a child.)
C9_NoHandlerNotFound ==
    \A i \in Levels :
      LET f == stack[i]
          r == objs[f.req]
          refusedSys == f.ctxDepth = 0 /\ route(r.uri).found /\ isSysRequest(r)
      IN  (f.pc = "settled" /\ NoHandlerFor(i)) =>
            /\ f.res.state = "rejected"
            /\ NoChildWork(i)
            /\ (f.ctxDepth <= maxDepth /\ ~ refusedSys) =>
                 /\ f.res.val.status = 404
                 /\ f.res.val.type = "not_found#route"
                 /\ f.res.val.isError

\* POST /v1/loop, a route with a get handler only, has settled with 404.
C9_Witness ==
    /\ RootSettled
    /\ objs[stack[1].req].uri = U_loop
    /\ objs[stack[1].req].method = "post"
    /\ stack[1].res = Rejected(NotFoundRoute)
    /\ ~ stack[1].child

\* An external head request for a route with a get handler and no head handler
\* has been answered.
HeadAnswered ==
    /\ phase = "responded"
    /\ client.written
    /\ objs[stack[1].req].method = "head"
    /\ route(objs[stack[1].req].uri).found
    /\ route(objs[stack[1].req].uri).methods["get"] # "none"
    /\ route(objs[stack[1].req].uri).methods["head"] = "none"
    /\ route(objs[stack[1].req].uri).methods["all"] = "none"

\* The get handler has produced a response with a status.
GetHandlerResponse(f) ==
    /\ f.raw.state = "resolved"
    /\ f.raw.val.def
    /\ f.raw.val.status # NoStatus

\* C10 as stated: a head request for a route with a get handler and no head
\* handler is dispatched to the get handler, and the client receives the status
\* and the headers the handler produced, with an empty body.
C10_Original ==
    HeadAnswered =>
      /\ stack[1].handler = route(objs[stack[1].req].uri).methods["get"]
      /\ RanAt(1, {"handler"})
      /\ GetHandlerResponse(stack[1]) =>
           /\ client.status = stack[1].raw.val.status
           /\ stack[1].raw.val.headers \subseteq client.headers
           /\ client.body = "empty"

\* C10, amended: an external head request for a route that is not a sys route,
\* has a get handler and no head handler is dispatched to the get handler; the
\* client receives the status the handler produced and an empty body, and of
\* the headers the handler produced those that are not hop-to-hop headers
\* (content-length among them), are not x-request-id or server (which the
\* server sets), and, for a status >= 400, are not content-type (which becomes
\* application/problem+json).  A head request for a sys route is answered 403.
C10_HeadServedByGet ==
    HeadAnswered =>
      LET f == stack[1]
          r == objs[f.req]
      IN  IF isSysRequest(r)
          THEN client.status = 403 /\ client.body = "empty" /\ ~ RanAt(1, {"handler"})
          ELSE /\ f.handler = route(r.uri).methods["get"]
               /\ RanAt(1, {"handler"})
               /\ GetHandlerResponse(f) =>
                    /\ client.status = f.raw.val.status
                    /\ client.body = "empty"
                    /\ \A e \in f.raw.val.headers :
                         (/\ e[1] \notin HopToHopHeaders \cup {"x-request-id", "server"}
                          /\ ~ (f.raw.val.status >= 400 /\ e[1] = "content-type"))
                           => e \in client.headers
                    /\ \A e \in client.headers : e[1] \notin HopToHopHeaders

\* HEAD /v1/head has been answered from the get handler's 200 response.
C10_Witness ==
    /\ HeadAnswered
    /\ objs[stack[1].req].uri = U_head
    /\ stack[1].raw = Resolved(OkResponse)
    /\ client.status = 200
    /\ <<"test", "test">> \in client.headers
    /\ client.body = "empty"

\* ------------------------------------------------- lib/handlerTemplate.js
\* A request chain is a list of steps; a step is a list of stanzas (the
\* entries of the step object, in key order). A stanza is named by its place,
\* <<step, position>>, and <<>> stands for "no name" (`false` in the code).
MaxSteps == 2
MaxStanzas == 2

NoName == <<>>

\* Status predicates (return_if, catch) are the set of statuses they match;
\* the empty set is a stanza without the key.
NoPred == {}

Stanza(rq, rt, ri, ca) ==
    [request |-> rq, return |-> rt, return_if |-> ri, catch |-> ca,
     response |-> FALSE]

\* The stanza with a `response` template added.
WithResponse(s) == [s EXCEPT !.response = TRUE]

\* return: absent, `true`, or a response template.
Stanzas ==
    { Stanza(rq, rt, ri, ca) :
        rq \in BOOLEAN, rt \in {"none", "true", "template"},
        ri \in {NoPred, {200}}, ca \in {NoPred, {404}} }

Truthy(rt) == rt # "none"

StepsOf(S) == UNION { [1..n -> S] : n \in 1..MaxStanzas }

ChainsOf(S) == UNION { [1..n -> StepsOf(S)] : n \in 0..MaxSteps }

\* What createHandler may be called with: an array, an object that is no
\* array, or nothing.
ArraySpec(steps) == [kind |-> "array", steps |-> steps]
ObjectSpec == [kind |-> "object", steps |-> <<>>]
MissingSpec == [kind |-> "undefined", steps |-> <<>>]

\* Error messages, sentence by sentence.
NoError == <<>>
InvalidSpec(sentence) == <<"Invalid spec.", sentence>>
ParallelReturns == InvalidSpec("Returning requests cannot be parallel.")
RequestOrReturn == InvalidSpec("Either request or return must be specified.")
ReturnIfNeedsRequest == InvalidSpec("return_if should have a matching request.")
CatchNeedsRequest == InvalidSpec("catch should have a matching request.")
NotAnArray == InvalidSpec("It must be an array of request block definitions.")
LastStepParallel == InvalidSpec("Need a return if the last step is parallel.")
\* Object.keys(undefined)
TypeErrorKeys == <<"Cannot convert undefined or null to object">>

startsWith(message, sentence) == Len(message) > 0 /\ message[1] = sentence

countReturnsNoConditionals(stepConf, withConditionals) ==
    Cardinality({ j \in 1..Len(stepConf) : Truthy(stepConf[j].return) })

countReturnsInStep(stepConf, withConditionals) ==
    Cardinality({ j \in 1..Len(stepConf) :
        \/ Truthy(stepConf[j].return)
        \/ withConditionals /\ stepConf[j].return_if # NoPred })

validateStepCatchUnchecked(stepConf) ==
    IF countReturnsInStep(stepConf, TRUE) > 1 THEN ParallelReturns
    ELSE IF ~ \A j \in 1..Len(stepConf) :
                stepConf[j].request \/ Truthy(stepConf[j].return)
    THEN RequestOrReturn
    ELSE IF \E j \in 1..Len(stepConf) :
                stepConf[j].return_if # NoPred /\ ~stepConf[j].request
    THEN ReturnIfNeedsRequest
    ELSE NoError

\* The message validateStep throws, NoError when it returns.
validateStep(stepConf) ==
    IF countReturnsInStep(stepConf, TRUE) > 1 THEN ParallelReturns
    ELSE IF ~ \A j \in 1..Len(stepConf) :
                stepConf[j].request \/ Truthy(stepConf[j].return)
    THEN RequestOrReturn
    ELSE IF \E j \in 1..Len(stepConf) :
                stepConf[j].return_if # NoPred /\ ~stepConf[j].request
    THEN ReturnIfNeedsRequest
    ELSE IF \E j \in 1..Len(stepConf) :
                stepConf[j].catch # NoPred /\ ~stepConf[j].request
    THEN CatchNeedsRequest
    ELSE NoError

\* spec.forEach(validateStep): the first step that throws decides.
RECURSIVE forEachValidateStep(_, _)
forEachValidateStep(steps, i) ==
    IF i > Len(steps) THEN NoError
    ELSE IF validateStep(steps[i]) # NoError THEN validateStep(steps[i])
    ELSE forEachValidateStep(steps, i + 1)

\* validateSpec: the message it throws (NoError when it returns) and the
\* steps as it leaves them (it writes return = true into a lone last stanza).
validateSpecAnyStepCount(spec) ==
    IF spec.kind # "array" THEN [message |-> NotAnArray, steps |-> spec.steps]
    ELSE IF forEachValidateStep(spec.steps, 1) # NoError
    THEN [message |-> forEachValidateStep(spec.steps, 1), steps |-> spec.steps]
    ELSE IF Len(spec.steps) = 0
    THEN [message |-> TypeErrorKeys, steps |-> spec.steps]
    ELSE LET n == Len(spec.steps)
             lastStep == spec.steps[n]
         IN  IF countReturnsInStep(lastStep, FALSE) = 0
             THEN [message |-> NoError,
                   steps |-> [spec.steps EXCEPT ![n][1].return = "true"]]
             ELSE [message |-> NoError, steps |-> spec.steps]

validateSpec(spec) ==
    IF spec.kind # "array" THEN [message |-> NotAnArray, steps |-> spec.steps]
    ELSE IF forEachValidateStep(spec.steps, 1) # NoError
    THEN [message |-> forEachValidateStep(spec.steps, 1), steps |-> spec.steps]
    ELSE IF Len(spec.steps) = 0
    THEN [message |-> TypeErrorKeys, steps |-> spec.steps]
    ELSE LET n == Len(spec.steps)
             lastStep == spec.steps[n]
         IN  IF countReturnsInStep(lastStep, FALSE) = 0
             THEN IF Len(lastStep) > 1
                  THEN [message |-> LastStepParallel, steps |-> spec.steps]
                  ELSE [message |-> NoError,
                        steps |-> [spec.steps EXCEPT ![n][1].return = "true"]]
             ELSE [message |-> NoError, steps |-> spec.steps]

\* createHandler: validateSpec throws, or the steps are compiled and the
\* handler function is returned.
createHandler(spec) ==
    LET v == validateSpec(spec)
    IN  IF v.message # NoError
        THEN [state |-> "thrown", message |-> v.message, steps |-> v.steps]
        ELSE [state |-> "handler", message |-> NoError, steps |-> v.steps]

\* ------------------------------------------------ running a compiled chain

Names == (1..MaxSteps) \X (1..MaxStanzas)

\* ctx.model[name]; ctx.model[false] is undefined.
modelAt(model, name) == IF name = NoName THEN Undefined ELSE model[name]

\* What a request template's URI leads to: no route at all, or a route whose
\* handler answers with a status.
NoRouteTarget == [routed |-> FALSE, status |-> NoStatus]
HandlerTarget(status) == [routed |-> TRUE, status |-> status]
Targets == {NoRouteTarget} \cup { HandlerTarget(s) : s \in {200, 204, 404, 500} }

\* The outcome of a call: the callee threw before returning a promise, or it
\* returned a promise that settles later.
Thrown(e) == [state |-> "thrown", val |-> e]

\* hyper._request(childReq) on the handler's context: throws when no route
\* matches, else the handler's response normalised.
_request(target) ==
    IF ~target.routed THEN Thrown(NotFoundRoute)
    ELSE normaliseResponse(Resolved(Response(target.status, "", {}, "content")))

\* _createFilteredHandler: with no filters the handler itself is returned;
\* otherwise the chain ends in P.method(handler), which turns a throw into a
\* rejection.
_createFilteredHandler(outcome, filters) ==
    IF Len(filters) = 0 THEN outcome
    ELSE IF outcome.state = "thrown" THEN Rejected(outcome.val)
    ELSE outcome

\* ctx.hyper.request(req) as a request handler of the chain sees it.
hyperRequest(hyper, target) ==
    IF _checkMaxRecursionDepth(hyper._recursionDepth, hyper.maxDepth)
    THEN Thrown(RecursionError(hyper._recursionDepth))
    ELSE _createFilteredHandler(_request(target), hyper._subRequestFilters)

\* compileCatchFunction: the predicate over a response or an error.
predMatches(pred, res) == res.status \in pred

\* shouldReturn(res) of makeRequestHandler.
shouldReturnIgnoringReturnIf(stanza, name, res) ==
    IF Truthy(stanza.return) THEN name
    ELSE IF stanza.return_if # NoPred /\ predMatches(stanza.return_if, res) THEN name
    ELSE NoName

shouldReturn(stanza, name, res) ==
    IF stanza.return_if # NoPred
    THEN (IF predMatches(stanza.return_if, res) THEN name ELSE NoName)
    ELSE IF Truthy(stanza.return) THEN name
    ELSE NoName

\* a || b on the return marker
OrElseLast(a, b) == b
OrElse(a, b) == IF a # NoName THEN a ELSE b

\* The three request handlers makeRequestHandler compiles.
handlerKind(stanza) ==
    IF stanza.catch # NoPred THEN "catching"
    ELSE IF stanza.return_if = NoPred /\ Truthy(stanza.return) THEN "returning"
    ELSE "plain"

\* What the handler does before it calls ctx.hyper.request.
beforeRequest(c, stanza, name) ==
    IF handlerKind(stanza) = "returning" THEN [c EXCEPT !._doReturn = name] ELSE c

\* The fulfilment callback of the handler.
onFulfilled(c, stanza, name, res) ==
    IF handlerKind(stanza) = "returning"
    THEN [c EXCEPT !.model[name] = res, !._doReturn = name]
    ELSE [c EXCEPT !.model[name] = res,
                   !._doReturn = OrElse(c._doReturn, shouldReturn(stanza, name, res))]

\* The rejection callback: only the catching handler has one. `rethrown` says
\* whether the error leaves the handler.
onRejected(c, stanza, name, res) ==
    IF handlerKind(stanza) # "catching" THEN [ctx |-> c, rethrown |-> TRUE]
    ELSE IF predMatches(stanza.catch, res)
    THEN [ctx |-> [c EXCEPT !.model[name] = res,
                            !._doReturn = OrElse(c._doReturn, shouldReturn(stanza, name, res))],
          rethrown |-> FALSE]
    ELSE [ctx |-> [c EXCEPT !.model[name] = res], rethrown |-> TRUE]

\* What a return template expands to.
Expanded == Response(200, "", {}, "expanded")

\* makeResponseHandler: the handler of one stanza (the identity when the
\* stanza compiles to none).
hasResponseHandler(stanza) ==
    \/ stanza.return = "template"
    \/ stanza.return = "none" /\ stanza.response

responseHandler(c, stanza, name) ==
    IF ~hasResponseHandler(stanza) THEN c
    ELSE LET doReturn == IF Truthy(stanza.return) /\ stanza.return_if = NoPred
                         THEN name ELSE NoName
             evaluated == IF c._doReturn # NoName \/ stanza.return_if = NoPred
                          THEN [c EXCEPT !.model[name] = Expanded] ELSE c
         IN  [evaluated EXCEPT !._doReturn = OrElse(evaluated._doReturn, doReturn)]

\* returnHandlerInfos of makeStepResponseHandler: the stanzas of the step that
\* have a response handler, in the order of reqHandlerInfos (key order).
returnHandlerInfosReversed(stepSpec) ==
    LET infos == SelectSeq([j \in 1..Len(stepSpec) |-> j],
                           LAMBDA j : hasResponseHandler(stepSpec[j]))
    IN  [k \in 1..Len(infos) |-> infos[Len(infos) + 1 - k]]

returnHandlerInfos(stepSpec) ==
    SelectSeq([j \in 1..Len(stepSpec) |-> j],
              LAMBDA j : hasResponseHandler(stepSpec[j]))

\* makeStepResponseHandler: returnHandlerInfos.forEach, from the k-th on.
RECURSIVE stepResponseHandler(_, _, _, _)
stepResponseHandler(c, stepSpec, i, k) ==
    LET infos == returnHandlerInfos(stepSpec)
    IN  IF k > Len(infos) THEN c
        ELSE stepResponseHandler(
                 responseHandler(c, stepSpec[infos[k]], <<i, infos[k]>>),
                 stepSpec, i, k + 1)

\* The names of the response handlers of step i, in the order they are run.
massagedBy(stepSpec, i) ==
    LET infos == returnHandlerInfos(stepSpec)
    IN  [k \in 1..Len(infos) |-> <<i, infos[k]>>]

\* The stanzas of a step that compile to a request handler.
RequestsOf(stepSpec) == { j \in 1..Len(stepSpec) : stepSpec[j].request }

\* ---------------------------------------------------- createHandler, runs

\* The invocation of a handler that createHandler returned. `fulfilled` and
\* `failed` keep the sub-request outcomes seen so far, each with its stanza's
\* name.
NewCtx(hyper) ==
    [hyper |-> hyper, model |-> [n \in Names |-> Undefined], _doReturn |-> NoName]

ChainAt(pc) ==
    [pc |-> pc, i |-> 0, started |-> <<>>, launched |-> {}, inflight |-> {},
     fulfilled |-> {}, failed |-> {}, result |-> Pending, requestName |-> NoName,
     completed |-> <<>>, massaged |-> <<>>]

\* The specs handed to createHandler: every chain of the bounded shape, an
\* object that is no array, and nothing.
HandlerSpecs ==
    {ObjectSpec, MissingSpec} \cup { ArraySpec(c) : c \in ChainsOf(Stanzas) }

\* The stanzas of the chains that are run.
RunStanzas == { s \in Stanzas : validateStep(<<s>>) = NoError }

RunSpecs == { ArraySpec(c) : c \in ChainsOf(RunStanzas) }

InitCreate ==
    /\ maxDepth = DefaultMaxDepth
    /\ phase = "idle"
    /\ stack = <<>>
    /\ objs = <<>>
    /\ heap = <<>>
    /\ log = <<>>
    /\ client = NoClient
    /\ handlerSpec \in HandlerSpecs
    /\ created = NotCreated
    /\ ctx = NoCtx
    /\ chain = ChainAt("spec")
    /\ LoaderUnused

InitChain ==
    /\ maxDepth = DefaultMaxDepth
    /\ phase = "idle"
    /\ stack = <<>>
    /\ objs = <<>>
    /\ heap = <<>>
    /\ log = <<>>
    /\ client = NoClient
    /\ handlerSpec \in RunSpecs
    /\ created = NotCreated
    /\ ctx = NoCtx
    /\ chain = ChainAt("spec")
    /\ LoaderUnused

CreateHandler ==
    /\ chain.pc = "spec"
    /\ created' = createHandler(handlerSpec)
    /\ chain' = [chain EXCEPT !.pc = created'.state]
    /\ UNCHANGED <<dispatchVars, loaderVars, handlerSpec, ctx>>

\* handler(hyper, req): the ctx is made and runStep(steps, 0, ctx) is called.
InvokeHandler ==
    /\ chain.pc = "handler"
    /\ \E d \in {maxDepth, maxDepth + 1}, fs \in {<<>>, SubRequestFilters} :
         ctx' = NewCtx([_recursionDepth |-> d, maxDepth |-> maxDepth,
                        _subRequestFilters |-> fs])
    /\ chain' = [chain EXCEPT !.pc = "runStep", !.i = 1]
    /\ UNCHANGED <<dispatchVars, loaderVars, handlerSpec, created>>

stepOf == created.steps[chain.i]

\* runStep: step(ctx) is called.
RunStep ==
    /\ chain.pc = "runStep"
    /\ chain' = [chain EXCEPT !.pc = "requests", !.started = Append(@, chain.i),
                              !.launched = {}, !.inflight = {}, !.completed = <<>>]
    /\ UNCHANGED <<dispatchVars, loaderVars, handlerSpec, created, ctx>>

\* P.map calls one of the step's request handlers. A handler that throws
\* rejects the step at once, and the error carries no requestName.
CallRequestHandler ==
    /\ chain.pc = "requests"
    /\ \E j \in RequestsOf(stepOf) \ chain.launched, t \in Targets :
         LET name == <<chain.i, j>>
             out == hyperRequest(ctx.hyper, t)
         IN  /\ ctx' = beforeRequest(ctx, stepOf[j], name)
             /\ chain' =
                  IF out.state = "thrown"
                  THEN [chain EXCEPT !.launched = @ \cup {j},
                                     !.failed = @ \cup {<<name, out.val>>},
                                     !.result = IF @.state = "pending"
                                                THEN Rejected(out.val) ELSE @]
                  ELSE [chain EXCEPT !.launched = @ \cup {j},
                                     !.inflight = @ \cup {<<j, out>>}]
    /\ UNCHANGED <<dispatchVars, loaderVars, handlerSpec, created>>

\* A sub-request settles and the handler's callbacks run; an error that
\* leaves the handler is tagged with the stanza's name and rejects the step.
RequestSettled ==
    /\ chain.pc = "requests"
    /\ \E f \in chain.inflight :
         LET j == f[1]
             out == f[2]
             name == <<chain.i, j>>
             r == onRejected(ctx, stepOf[j], name, out.val)
         IN  IF out.state = "resolved"
             THEN /\ ctx' = onFulfilled(ctx, stepOf[j], name, out.val)
                  /\ chain' = [chain EXCEPT !.inflight = @ \ {f},
                                            !.fulfilled = @ \cup {<<name, out.val>>},
                                            !.completed = Append(@, name)]
             ELSE /\ ctx' = r.ctx
                  /\ chain' =
                       IF r.rethrown /\ chain.result.state = "pending"
                       THEN [chain EXCEPT !.inflight = @ \ {f},
                                          !.failed = @ \cup {<<name, out.val>>},
                                          !.result = Rejected(out.val),
                                          !.requestName = name,
                                          !.completed = Append(@, name)]
                       ELSE [chain EXCEPT !.inflight = @ \ {f},
                                          !.failed = @ \cup {<<name, out.val>>},
                                          !.completed = Append(@, name)]
    /\ UNCHANGED <<dispatchVars, loaderVars, handlerSpec, created>>

\* Every request handler of the step has resolved: the response handlers run.
StepResolvedWhenAllCalled ==
    /\ chain.pc = "requests"
    /\ chain.launched = RequestsOf(stepOf)
    /\ chain.result.state = "pending"

StepResolved ==
    /\ chain.pc = "requests"
    /\ chain.launched = RequestsOf(stepOf)
    /\ chain.inflight = {}
    /\ chain.result.state = "pending"

\* runStep, not the last step and no return marker: the next step.
NextStep ==
    /\ StepResolved
    /\ ctx' = stepResponseHandler(ctx, stepOf, chain.i, 1)
    /\ chain.i < Len(created.steps)
    /\ ctx'._doReturn = NoName
    /\ chain' = [chain EXCEPT !.pc = "runStep", !.i = @ + 1,
                              !.massaged = @ \o massagedBy(stepOf, chain.i)]
    /\ UNCHANGED <<dispatchVars, loaderVars, handlerSpec, created>>

\* runStep, the marker is set or the step was the last: ctx.model[ctx._doReturn].
ReturnResponse ==
    /\ StepResolved
    /\ ctx' = stepResponseHandler(ctx, stepOf, chain.i, 1)
    /\ chain.i = Len(created.steps) \/ ctx'._doReturn # NoName
    /\ chain' = [chain EXCEPT !.pc = "returned",
                              !.result = Resolved(modelAt(ctx'.model, ctx'._doReturn)),
                              !.massaged = @ \o massagedBy(stepOf, chain.i)]
    /\ UNCHANGED <<dispatchVars, loaderVars, handlerSpec, created>>

NextCreate == CreateHandler

SpecCreate == InitCreate /\ [][NextCreate]_vars

NextChain ==
    \/ CreateHandler
    \/ InvokeHandler
    \/ RunStep
    \/ CallRequestHandler
    \/ RequestSettled
    \/ NextStep
    \/ ReturnResponse

SpecChain == InitChain /\ [][NextChain]_vars

\* Chains whose stanzas make a request and massage its response: a `response`
\* template (with or without a catch), `return: true` or a `return` template.
MassageStanzas ==
    { WithResponse(Stanza(TRUE, "none", NoPred, ca)) : ca \in {NoPred, {404}} }
        \cup { Stanza(TRUE, rt, NoPred, NoPred) : rt \in {"true", "template"} }

MassageSpecs == { ArraySpec(c) : c \in ChainsOf(MassageStanzas) }

InitMassage ==
    /\ maxDepth = DefaultMaxDepth
    /\ phase = "idle"
    /\ stack = <<>>
    /\ objs = <<>>
    /\ heap = <<>>
    /\ log = <<>>
    /\ client = NoClient
    /\ handlerSpec \in MassageSpecs
    /\ created = NotCreated
    /\ ctx = NoCtx
    /\ chain = ChainAt("spec")
    /\ LoaderUnused

SpecMassage == InitMassage /\ [][NextChain]_vars

\* ------------------------------------------------- properties of the chains

\* createHandler has been called and has thrown or returned.
Compiled == chain.pc # "spec" /\ chain.pc # "none"

IsArray == handlerSpec.kind = "array"

\* The stanzas of a step that carry `return` or `return_if`.
Returning(stepConf) ==
    { j \in 1..Len(stepConf) :
        stepConf[j].return # "none" \/ stepConf[j].return_if # NoPred }

ParallelSteps == { i \in 1..Len(handlerSpec.steps) : Cardinality(Returning(handlerSpec.steps[i])) > 1 }

\* A stanza that fails one of the other per-step checks.
Malformed(s) ==
    \/ ~s.request /\ s.return = "none"
    \/ s.return_if # NoPred /\ ~s.request
    \/ s.catch # NoPred /\ ~s.request

MalformedSteps ==
    { i \in 1..Len(handlerSpec.steps) :
        \E j \in 1..Len(handlerSpec.steps[i]) : Malformed(handlerSpec.steps[i][j]) }

Threw(message) == created.state = "thrown" /\ created.message = message

\* C14 as stated: a chain with a step of two returning stanzas is refused with
\* the parallel-returns message, and no other chain is.
C14_Original ==
    Compiled =>
        /\ ParallelSteps # {} => Threw(ParallelReturns)
        /\ ParallelSteps = {} => ~Threw(ParallelReturns)

\* C14: a chain with a step of two returning stanzas is always refused; the
\* message is the parallel-returns one exactly when no earlier step of the list
\* fails another per-step check; a chain without such a step never gets it.
C14_ParallelReturnsRefused ==
    Compiled =>
        /\ ParallelSteps # {} =>
             /\ created.state = "thrown"
             /\ startsWith(created.message, "Invalid spec.")
             /\ Threw(ParallelReturns) <=>
                  ~ \E i \in MalformedSteps : \A k \in ParallelSteps : i < k
        /\ ParallelSteps = {} => ~Threw(ParallelReturns)

C14_Witness ==
    /\ Threw(ParallelReturns)
    /\ ParallelSteps = {2}
    /\ MalformedSteps = {2}
    /\ \E j \in 1..2 : handlerSpec.steps[2][j].return = "none"

\* C15 as stated: a spec that is not a non-empty list (no list, nothing, or the
\* empty list) makes createHandler throw an error whose message starts with
\* `Invalid spec.`, and no handler is returned for it.
C15_Original ==
    Compiled /\ ~(IsArray /\ Len(handlerSpec.steps) > 0) =>
        /\ created.state = "thrown"
        /\ startsWith(created.message, "Invalid spec.")

AllStanzas ==
    { <<i, j>> \in (1..Len(handlerSpec.steps)) \X (1..MaxStanzas) :
        j <= Len(handlerSpec.steps[i]) }

StanzaAt(n) == handlerSpec.steps[n[1]][n[2]]

Neither(s) == ~s.request /\ s.return = "none"
ReturnIfAlone(s) == s.return_if # NoPred /\ ~s.request
CatchAlone(s) == s.catch # NoPred /\ ~s.request

\* C16 as stated: each of the three defects of a stanza gets its own message.
C16_Original ==
    Compiled /\ IsArray =>
        \A n \in AllStanzas :
            /\ Neither(StanzaAt(n)) => Threw(RequestOrReturn)
            /\ ReturnIfAlone(StanzaAt(n)) => Threw(ReturnIfNeedsRequest)
            /\ CatchAlone(StanzaAt(n)) => Threw(CatchNeedsRequest)

\* The first step of the list that fails a per-step check.
FirstBadStep ==
    CHOOSE i \in MalformedSteps \cup ParallelSteps :
        \A k \in MalformedSteps \cup ParallelSteps : i <= k

InStep(i, D(_)) == \E n \in AllStanzas : n[1] = i /\ D(StanzaAt(n))

\* C16: a chain with a stanza that has neither `request` nor `return`, or has
\* `return_if` or `catch` without `request`, is always refused with an
\* `Invalid spec.` error; the message is that of the first check to fail, the
\* steps taken in list order and, inside a step, the checks in the order
\* parallel returns, request-or-return, return_if, catch.
C16_MalformedStanzaRefused ==
    Compiled /\ IsArray /\ MalformedSteps # {} =>
        /\ created.state = "thrown"
        /\ startsWith(created.message, "Invalid spec.")
        /\ created.message =
             IF FirstBadStep \in ParallelSteps THEN ParallelReturns
             ELSE IF InStep(FirstBadStep, Neither) THEN RequestOrReturn
             ELSE IF InStep(FirstBadStep, ReturnIfAlone) THEN ReturnIfNeedsRequest
             ELSE CatchNeedsRequest

C16_Witness ==
    /\ Threw(CatchNeedsRequest)
    /\ MalformedSteps = {2}
    /\ Len(handlerSpec.steps[2]) = 2
    /\ \E j \in 1..2 : handlerSpec.steps[2][j].request

LastStep == handlerSpec.steps[Len(handlerSpec.steps)]

\* The final step has no stanza with an explicit `return`.
NoExplicitReturn ==
    /\ IsArray
    /\ Len(handlerSpec.steps) > 0
    /\ \A j \in 1..Len(LastStep) : LastStep[j].return = "none"

\* The handler has resolved out of the final step.
ReturnedFromLast == chain.pc = "returned" /\ chain.i = Len(created.steps)

LastName == <<Len(handlerSpec.steps), 1>>

Invoked == chain.pc \in {"runStep", "requests", "returned"}

\* started = <<1, 2, ..., n>>
InListOrder(started) == \A k \in 1..Len(started) : started[k] = k

\* The steps so far started in list order, and a step is about to start only
\* when every request of the step before it has settled and none has failed.
StepsInOrder ==
    Invoked =>
        /\ InListOrder(chain.started)
        /\ chain.pc = "runStep" =>
             /\ Len(chain.started) = chain.i - 1
             /\ chain.inflight = {}
             /\ chain.result.state = "pending"
             /\ chain.i > 1 => chain.launched = RequestsOf(created.steps[chain.i - 1])

\* The handler's response is the model entry the marker names.
ResponseIsMarked ==
    chain.pc = "returned" /\ ctx._doReturn # NoName =>
        chain.result = Resolved(ctx.model[ctx._doReturn])

\* With the marker set, no step is started and the marker stays as it is.
MarkerHalts ==
    Invoked /\ ctx._doReturn # NoName =>
        /\ chain'.started = chain.started
        /\ ctx'._doReturn = ctx._doReturn

\* C11: the steps of a compiled chain start in list order, each only after
\* the one before it has completed; once a stanza has set ctx._doReturn no
\* later step is started and the marker keeps that stanza's name; a handler
\* that resolves with the marker set resolves with ctx.model[ctx._doReturn].
C11_StepOrderAndMarker ==
    /\ [](StepsInOrder /\ ResponseIsMarked)
    /\ [][MarkerHalts]_vars

C11_Witness ==
    /\ chain.pc = "returned"
    /\ Len(created.steps) = 2
    /\ chain.started = <<1>>
    /\ ctx._doReturn = <<1, 2>>
    /\ created.steps[1][2].return_if = {200}
    /\ ctx.model[<<1, 1>>].status = 404
    /\ chain.result.val = ctx.model[<<1, 2>>]

\* The failures of the step in progress, before its response handlers run.
FailedNow == { f \in chain.failed : chain.pc = "requests" /\ f[1][1] = chain.i }

Caught(f) ==
    LET s == created.steps[f[1][1]][f[1][2]]
    IN  s.catch # NoPred /\ f[2].status \in s.catch

\* The handler has rejected with an uncaught failure, tagged with its stanza.
RejectedTagged ==
    \E g \in chain.failed :
        /\ ~Caught(g)
        /\ chain.result = Rejected(g[2])
        /\ chain.requestName = g[1]

\* C12 as stated: a failure of a sub-request that the stanza's catch matches,
\* however it was raised, is stored in ctx.model under the stanza's name and
\* does not fail the chain; any other failure rejects the handler with the
\* error carrying the stanza's name, and no later step is started.
C12_Original ==
    \A f \in FailedNow :
        IF Caught(f)
        THEN /\ ctx.model[f[1]] = f[2]
             /\ chain.result.state = "rejected" => RejectedTagged
        ELSE RejectedTagged

\* Both request stanzas of a two-request step have been called and none is
\* still in flight.
TwoDone ==
    /\ chain.pc \in {"requests", "returned"}
    /\ Cardinality(RequestsOf(stepOf)) = 2
    /\ chain.launched = RequestsOf(stepOf)
    /\ chain.inflight = {}

StepNames == { <<chain.i, j>> : j \in RequestsOf(stepOf) }

SucceededAt(n) == \E g \in chain.fulfilled : g[1] = n
CaughtAt(n) == \E f \in chain.failed : f[1] = n /\ Caught(f)

\* An unconditional `return`.
CarriesReturn(n) ==
    /\ created.steps[n[1]][n[2]].return # "none"
    /\ created.steps[n[1]][n[2]].return_if = NoPred

\* C13 as stated: in a two-request step, two successes leave both results in
\* ctx.model under the stanzas' names; a failure matched by its stanza's catch
\* beside a success of a returning stanza makes the handler respond with the
\* returning stanza's entry; both whatever the completion order.
C13_Original ==
    TwoDone =>
        /\ (\A n \in StepNames : SucceededAt(n)) /\ chain.pc = "requests" =>
               \A g \in chain.fulfilled : g[1] \in StepNames => ctx.model[g[1]] = g[2]
        /\ \A a, b \in StepNames :
               CaughtAt(a) /\ SucceededAt(b) /\ CarriesReturn(b) =>
                   /\ chain.result.state # "rejected"
                   /\ chain.pc = "returned" => chain.result = Resolved(ctx.model[b])

\* ------------------------------------------------- lib/router.js: modules
\* Module definitions (the entries of x-modules), the globals of the scope
\* they are loaded in, and the module cache of one Router.
MaxLoads == 2

\* def.options: absent, or an object with a value and maybe `templates`.
NoOptions == [def |-> FALSE, value |-> "", templates |-> Absent]
Options(value, templates) == [def |-> TRUE, value |-> value, templates |-> templates]
OptionsChoices ==
    {NoOptions} \cup { Options(v, t) : v \in {"v1", "v2"}, t \in {Absent, "t1", "t2"} }

\* An inline spec, a .js file that exports a factory function, a .js file
\* that exports the module object itself.
ModDef(type, path, options) == [type |-> type, path |-> path, options |-> options]
ModDefs ==
    { ModDef("inline", Absent, o) : o \in OptionsChoices }
        \cup { ModDef("file", p, o) : p \in {"factory.js", "object.js"}, o \in OptionsChoices }

\* scope.globals: `options`, possibly falsy, and the logger that sits in it.
Globals == [options : {"", "A"}, logger : {"log1", "log2"}]

\* utils.exportGlobal on a plain object: the logger and falsy values go.
exportGlobal(global) ==
    [k \in { key \in DOMAIN global : key # "logger" /\ global[key] # "" } |-> global[k]]

\* sha256 of the stable stringification: equal for equal structures only.
digest(value) == <<"sha256", value>>

\* _expandOptions: the expanded options, and the definition as the call
\* leaves it (`templates` is deleted from def.options and put back on the
\* expanded copy only).
_expandOptions(def, globals) ==
    IF def.options.def
    THEN [options |-> [def.options EXCEPT !.value = <<@, globals.options>>],
          def |-> [def EXCEPT !.options.templates = Absent]]
    ELSE [options |-> def.options, def |-> def]

\* _getCachedModule: the digest of the definition and the cached module for
\* these globals (a set of at most one entry).
_getCachedModule(modules, modDef, globals) ==
    [digest |-> digest(modDef),
     module |-> { e.module : e \in { c \in modules :
                     /\ c.digest = digest(modDef)
                     /\ c.globalHash = digest(exportGlobal(globals)) } }]

\* _cacheModule
_cacheModule(modules, cacheInfo, mod) ==
    { c \in modules : ~ (/\ c.digest = cacheInfo.digest
                         /\ c.globalHash = digest(exportGlobal(mod._parentGlobals))) }
        \cup {[digest |-> cacheInfo.digest,
               globalHash |-> digest(exportGlobal(mod._parentGlobals)),
               module |-> mod]}

\* The object a load ends with when nothing is cached: constructModule and a
\* factory make a new one, `require` of an object export returns that object.
newModule(modDef, options, globals, fresh) ==
    IF modDef.type = "file" /\ modDef.path = "object.js"
    THEN [id |-> <<"exports", modDef.path>>, _parentGlobals |-> globals]
    ELSE [id |-> <<"new", fresh>>, _parentGlobals |-> globals]

\* _loadModule: the module it resolves with and the cache it leaves.
_loadModule(modules, modDef, globals, fresh) ==
    LET expanded == _expandOptions(modDef, globals)
        cached == _getCachedModule(modules, expanded.def, globals)
        mod == newModule(expanded.def, expanded.options, globals, fresh)
    IN  IF cached.module # {}
        THEN [module |-> CHOOSE m \in cached.module : TRUE, modules |-> modules]
        ELSE [module |-> mod, modules |-> _cacheModule(modules, cached, mod)]

\* The router while it loads modules: this._modules and the loads so far.
ModuleLoader(modules, loads) == [pc |-> "modules", modules |-> modules, loads |-> loads]

InitModules ==
    /\ maxDepth = DefaultMaxDepth
    /\ phase = "idle"
    /\ stack = <<>>
    /\ objs = <<>>
    /\ heap = <<>>
    /\ log = <<>>
    /\ client = NoClient
    /\ ChainUnused
    /\ router = ModuleLoader({}, <<>>)

\* _loadModules: one more module definition is loaded.
LoadModule ==
    /\ router.pc = "modules"
    /\ Len(router.loads) < MaxLoads
    /\ \E modDef \in ModDefs, globals \in Globals :
         LET r == _loadModule(router.modules, modDef, globals, Len(router.loads) + 1)
         IN  router' = ModuleLoader(r.modules,
                 Append(router.loads,
                        [def |-> modDef, globals |-> globals, module |-> r.module.id]))
    /\ UNCHANGED <<dispatchVars, chainVars>>

NextModules == LoadModule

SpecModules == InitModules /\ [][NextModules]_vars

\* C20 as stated: two loads of one loadSpec end with the same module instance
\* exactly when their definitions are equal in every field and their exported
\* globals are equal.
C20_Original ==
    router.pc = "modules" =>
        \A i, j \in 1..Len(router.loads) :
            router.loads[i].module = router.loads[j].module
                <=> /\ router.loads[i].def = router.loads[j].def
                    /\ exportGlobal(router.loads[i].globals) = exportGlobal(router.loads[j].globals)

\* --------------------------------------------- lib/router.js: verb stanzas
\* The path specs handled on one node of the route tree. A path spec is the
\* list of its verb stanzas in key order; a stanza binds a handler
\* (x-request-handler or an operationId of the scope), names an operationId
\* the scope does not have, or binds nothing.
MaxPathSpecs == 2

PathVerbs == {"get", "post"}
StanzaKinds == {"plain", "handler", "unknownOperation"}

PathSpecs ==
    { ps \in UNION { [1..n -> PathVerbs \X StanzaKinds] : n \in 0..Cardinality(PathVerbs) } :
        \A a, b \in 1..Len(ps) : a # b => ps[a][1] # ps[b][1] }

Redefine(methodName) == <<"Trying to re-define existing method", methodName>>
NoKnownHandler == <<"No known handler associated with operationId">>

\* One turn of the forEach of _registerMethods: the error it throws (NoError
\* if none) and node.value.methods after it.
registerAlways(methods, entry, disable_handlers) ==
    IF entry[1] \in methods
    THEN [error |-> Redefine(entry[1]), methods |-> methods]
    ELSE IF entry[2] = "unknownOperation" /\ ~disable_handlers
    THEN [error |-> NoKnownHandler, methods |-> methods]
    ELSE [error |-> NoError, methods |-> methods \cup {entry[1]}]

registerMethod(methods, entry, disable_handlers) ==
    IF entry[1] \in methods
    THEN [error |-> Redefine(entry[1]), methods |-> methods]
    ELSE IF entry[2] = "unknownOperation" /\ ~disable_handlers
    THEN [error |-> NoKnownHandler, methods |-> methods]
    ELSE IF entry[2] = "handler" \/ disable_handlers
    THEN [error |-> NoError, methods |-> methods \cup {entry[1]}]
    ELSE [error |-> NoError, methods |-> methods]

\* _registerMethods: the stanzas in key order, up to the first throw.
RECURSIVE _registerMethods(_, _, _, _)
_registerMethods(methods, pathspec, disable_handlers, k) ==
    IF k > Len(pathspec) THEN [error |-> NoError, methods |-> methods]
    ELSE LET r == registerMethod(methods, pathspec[k], disable_handlers)
         IN  IF r.error # NoError THEN r
             ELSE _registerMethods(r.methods, pathspec, disable_handlers, k + 1)

\* The router while it builds one node: node.value.methods, the path specs
\* handled on the node so far, and the error loadSpec rejects with.
PathLoader(disable_handlers, methods, handled, error) ==
    [pc |-> "paths", disable_handlers |-> disable_handlers, methods |-> methods,
     handled |-> handled, error |-> error]

InitPaths ==
    /\ maxDepth = DefaultMaxDepth
    /\ phase = "idle"
    /\ stack = <<>>
    /\ objs = <<>>
    /\ heap = <<>>
    /\ log = <<>>
    /\ client = NoClient
    /\ ChainUnused
    /\ \E d \in BOOLEAN : router = PathLoader(d, {}, <<>>, NoError)

\* _handleSwaggerPathSpec: one more path spec lands on the node.
HandleSwaggerPathSpec ==
    /\ router.pc = "paths"
    /\ router.error = NoError
    /\ Len(router.handled) < MaxPathSpecs
    /\ \E pathspec \in PathSpecs :
         LET r == _registerMethods(router.methods, pathspec, router.disable_handlers, 1)
         IN  router' = PathLoader(router.disable_handlers, r.methods,
                                  Append(router.handled, pathspec), r.error)
    /\ UNCHANGED <<dispatchVars, chainVars>>

NextPaths == HandleSwaggerPathSpec

SpecPaths == InitPaths /\ [][NextPaths]_vars

\* The verbs a path spec defines, and the stanza kind of a verb in it.
Defines(pathspec) == { pathspec[k][1] : k \in 1..Len(pathspec) }
PlaceIn(pathspec, v) == CHOOSE k \in 1..Len(pathspec) : pathspec[k][1] = v

\* Verbs of the j-th path spec that an earlier path spec of the node defines.
Redefined(j) ==
    { v \in Defines(router.handled[j]) :
        \E i \in 1..(j - 1) : v \in Defines(router.handled[i]) }

\* ... and for which an earlier path spec registered a handler.
BoundBefore(j) ==
    { v \in Redefined(j) :
        \E i \in 1..(j - 1) :
            /\ v \in Defines(router.handled[i])
            /\ \/ router.disable_handlers
               \/ router.handled[i][PlaceIn(router.handled[i], v)][2] = "handler" }

\* C19 as stated: a verb defined by two path specs of one node always fails
\* the load with the re-define error, handler or not.
C19_Original ==
    router.pc = "paths" =>
        \A j \in 1..Len(router.handled) :
            Redefined(j) # {} =>
                startsWith(router.error, "Trying to re-define existing method")

\* C19: when a path spec defines a verb for which an earlier path spec of the
\* node has registered a handler, the load fails, with the re-define error
\* unless an earlier stanza of the same path spec fails first on an unknown
\* operationId; a verb whose earlier definitions bound no handler is accepted
\* again without the re-define error.
C19_BoundVerbNotRedefined ==
    router.pc = "paths" =>
        \A j \in 1..Len(router.handled) :
            LET ps == router.handled[j]
            IN  /\ \A v \in BoundBefore(j) :
                     /\ router.error # NoError
                     /\ \/ startsWith(router.error, "Trying to re-define existing method")
                        \/ /\ router.error = NoKnownHandler
                           /\ \E k \in 1..(PlaceIn(ps, v) - 1) : ps[k][2] = "unknownOperation"
                /\ j = Len(router.handled) /\ BoundBefore(j) = {} =>
                     ~startsWith(router.error, "Trying to re-define existing method")

C19_Witness ==
    /\ router.pc = "paths"
    /\ Len(router.handled) = 2
    /\ ~router.disable_handlers
    /\ router.handled[1] = <<<<"get", "handler">>>>
    /\ router.handled[2] = <<<<"post", "handler">>, <<"get", "plain">>>>
    /\ router.error = Redefine("get")
    /\ router.methods = {"get", "post"}

\* ---------------------------------------- startup: main() and loadSpec
\* The resources of the tree's nodes, as the loaded spec leaves them: a
\* resource is a request spec, here whether it has a `uri`.
MaxResources == 2

Nodes == {"root", "child"}

ResourceLists == UNION { [1..n -> [uri : BOOLEAN]] : n \in 0..MaxResources }

StartupError(message) == <<message>>
MissingResourceURI == StartupError("Missing resource URI in spec for")
SpecLoadFailed == StartupError("the spec does not load")
ResourceFailed == StartupError("status >= 400")

\* this.tree = rootNode; this.router.setTree(rootNode)
setTreeNever(r) == r
setTree(r) == [r EXCEPT !.tree = TRUE]

\* main() and Router.loadSpec under way. `visiting` says that handleResources
\* has started its visit of the tree; `next` is, per node, the index of
\* the resource P.each is at; `inflight` the nodes with a request in flight;
\* `stopped` the nodes whose P.each has rejected.
Startup(skip_resources, resources) ==
    [pc |-> "loadSpec", skip_resources |-> skip_resources, resources |-> resources,
     tree |-> FALSE, visiting |-> FALSE, next |-> [n \in Nodes |-> 1], inflight |-> {}, stopped |-> {},
     succeeded |-> {}, error |-> NoError, listening |-> FALSE]

InitStartup ==
    /\ maxDepth = DefaultMaxDepth
    /\ phase = "idle"
    /\ stack = <<>>
    /\ objs = <<>>
    /\ heap = <<>>
    /\ log = <<>>
    /\ client = NoClient
    /\ ChainUnused
    /\ \E skip \in BOOLEAN, res \in [Nodes -> ResourceLists] :
         router = Startup(skip, res)

\* _handleSwaggerSpec: the tree is built, or the load rejects.
HandleSwaggerSpec ==
    /\ router.pc = "loadSpec"
    /\ \E ok \in BOOLEAN :
         router' = IF ok THEN [router EXCEPT !.pc = "handled"]
                   ELSE [router EXCEPT !.pc = "rejected", !.error = SpecLoadFailed]
    /\ UNCHANGED <<dispatchVars, chainVars>>

\* loadSpec's first callback: the tree is set, then handleResources starts
\* (and resolves at once under skip_resources).
HandleResourcesStart ==
    /\ router.pc = "handled"
    /\ router' = [setTree(router) EXCEPT
                    !.visiting = ~router.skip_resources,
                    !.pc = IF router.skip_resources THEN "resourcesDone" ELSE "resources"]
    /\ UNCHANGED <<dispatchVars, chainVars>>

\* The visit has rejected: nothing after it in loadSpec or main's then runs.
Reject(r, error) ==
    IF r.error = NoError /\ r.pc = "resources"
    THEN [r EXCEPT !.pc = "rejected", !.error = error]
    ELSE r

\* P.each over a node's resources: the next one is expanded and, if it has
\* a uri, dispatched with hyper.request.
DispatchResource ==
    /\ router.pc \in {"resources", "rejected", "fatal"}
    /\ router.visiting
    /\ \E n \in Nodes \ (router.stopped \cup router.inflight) :
         /\ router.next[n] <= Len(router.resources[n])
         /\ router' =
              IF router.resources[n][router.next[n]].uri
              THEN [router EXCEPT !.inflight = @ \cup {n}]
              ELSE [Reject(router, MissingResourceURI) EXCEPT !.stopped = @ \cup {n}]
    /\ UNCHANGED <<dispatchVars, chainVars>>

\* A resource request settles: fulfilled, P.each goes on; rejected (a status
\* of 400 or more, or a throw), the node's P.each rejects.
ResourceRequestSettled ==
    /\ router.pc \in {"resources", "rejected", "fatal"}
    /\ \E n \in router.inflight, ok \in BOOLEAN :
         router' =
             IF ok
             THEN [router EXCEPT !.inflight = @ \ {n},
                                 !.succeeded = @ \cup {<<n, router.next[n]>>},
                                 !.next[n] = @ + 1]
             ELSE [Reject(router, ResourceFailed) EXCEPT !.inflight = @ \ {n},
                                                         !.stopped = @ \cup {n}]
    /\ UNCHANGED <<dispatchVars, chainVars>>

\* visitAsync resolves: every node's resources are through.
ResourcesDone ==
    /\ router.pc = "resources"
    /\ router.inflight = {}
    /\ \A n \in Nodes : router.next[n] > Len(router.resources[n])
    /\ router' = [router EXCEPT !.pc = "resourcesDone"]
    /\ UNCHANGED <<dispatchVars, chainVars>>

\* loadSpec's second callback (_clearModuleCache) and main's then: listen.
Listen ==
    /\ router.pc = "resourcesDone"
    /\ router' = [router EXCEPT !.pc = "listening", !.listening = TRUE]
    /\ UNCHANGED <<dispatchVars, chainVars>>

\* main's catch: fatal/startup is logged and the exit is scheduled.
FatalStartup ==
    /\ router.pc = "rejected"
    /\ router' = [router EXCEPT !.pc = "fatal"]
    /\ UNCHANGED <<dispatchVars, chainVars>>

NextStartup ==
    \/ HandleSwaggerSpec
    \/ HandleResourcesStart
    \/ DispatchResource
    \/ ResourceRequestSettled
    \/ ResourcesDone
    \/ Listen
    \/ FatalStartup

SpecStartup == InitStartup /\ [][NextStartup]_vars

InStartup == router.pc \in {"loadSpec", "handled", "resources", "resourcesDone",
                            "rejected", "listening", "fatal"}

\* Some resource has been looked at by handleResources.
ResourceTouched ==
    \/ router.inflight # {}
    \/ router.stopped # {}
    \/ router.succeeded # {}

AllResources == { <<n, k>> \in Nodes \X (1..MaxResources) : k <= Len(router.resources[n]) }

\* No resource is dispatched before the tree is installed; the server listens
\* only once the spec is loaded and every resource request has succeeded.
StartupOrder ==
    InStartup =>
        /\ ResourceTouched => router.tree
        /\ router.listening =>
             /\ router.tree
             /\ router.error = NoError
             /\ router.inflight = {}
             /\ ~router.skip_resources => router.succeeded = AllResources
        /\ ~router.skip_resources /\ (\E r \in AllResources : ~router.resources[r[1]][r[2]].uri)
             => ~router.listening

\* After a failure the server does not start listening, and the failure stays.
FailureIsFinal ==
    InStartup /\ router.error # NoError =>
        /\ ~router'.listening
        /\ router'.error = router.error

\* C18: during startup no resource request is dispatched before the route
\* tree is installed; the server starts listening only after the spec has
\* loaded and every resource request has succeeded; after a failure of the
\* load or of a resource (a missing uri included) it never listens.
C18_StartupOrder ==
    /\ []StartupOrder
    /\ [][FailureIsFinal]_vars

C18_Witness ==
    /\ router.pc = "listening"
    /\ ~router.skip_resources
    /\ Cardinality(router.succeeded) = 3
    /\ router.succeeded = AllResources

\* ------------------------------------------- return together with return_if

\* The stanzas of the compiled chain that carry both `return` and `return_if`.
ConditionalReturns ==
    { n \in Names :
        /\ n[1] <= Len(created.steps)
        /\ n[2] <= Len(created.steps[n[1]])
        /\ created.steps[n[1]][n[2]].return # "none"
        /\ created.steps[n[1]][n[2]].return_if # NoPred }

\* The responses stanza n has received: a result, or an error its catch took.
ReceivedAt(n) ==
    { g[2] : g \in { h \in chain.fulfilled : h[1] = n } }
        \cup { f[2] : f \in { h \in chain.failed : h[1] = n /\ Caught(h) } }

\* The step of stanza n has resolved: the chain has returned out of it or
\* gone on to a later step.
StepDone(n) ==
    \/ n[1] < chain.i
    \/ n[1] = chain.i /\ chain.pc = "returned"

\* The chain returned at stanza n.
ReturnedAt(n) ==
    /\ chain.pc = "returned"
    /\ chain.i = n[1]
    /\ ctx._doReturn = n
    /\ chain.result = Resolved(ctx.model[n])

\* C30: for a stanza with both `return` and `return_if`, once its step has
\* resolved: when return_if matches the stanza's response the chain has
\* returned at that stanza (with the expanded template, or with the response
\* for `return: true`); when it does not match, the chain has not returned at
\* the stanza, ctx.model holds the response as received, and unless the step
\* was the last the chain has gone on to the next step.
C30_ConditionalReturn ==
    Invoked =>
        \A n \in ConditionalReturns : \A r \in ReceivedAt(n) :
            StepDone(n) =>
                LET s == created.steps[n[1]][n[2]]
                IN  IF predMatches(s.return_if, r)
                    THEN /\ ReturnedAt(n)
                         /\ ctx.model[n] = IF s.return = "template" THEN Expanded ELSE r
                    ELSE /\ ~ReturnedAt(n)
                         /\ ctx._doReturn # n
                         /\ ctx.model[n] = r
                         /\ n[1] < Len(created.steps) => chain.i > n[1]

\* A 204 for a first-step stanza {request, return: <template>, return_if:
\* {status: 200}}: the second step has run and the 204 is still in ctx.model.
C30_Witness ==
    /\ chain.pc = "returned"
    /\ chain.i = 2
    /\ <<1, 1>> \in ConditionalReturns
    /\ created.steps[1][1].return = "template"
    /\ \E r \in ReceivedAt(<<1, 1>>) : r.status = 204 /\ ctx.model[<<1, 1>>] = r

\* --------------------------------------------------- the handler's response

\* Every sub-request the handler has made has succeeded.
AllSucceeded == chain.failed = {}

\* C29 as stated: a handler compiled from a spec that passes validation, all
\* of whose sub-requests succeed, resolves with a defined response, never
\* with undefined.
C29_Original ==
    chain.pc = "returned" /\ AllSucceeded => chain.result.val # Undefined

\* ------------------------------------------------ settling and sub-requests

\* The handler has resolved or rejected.
Settled == chain.result.state # "pending"

\* C28 as stated: when the handler settles, none of the sub-requests it
\* launched is still in flight.
C28_Original == Invoked /\ Settled => chain.inflight = {}

\* An uncaught failure, or a throw, of a request handler of the step in
\* progress.
FailedUncaughtInStep ==
    \E f \in chain.failed : f[1][1] = chain.i /\ chain.result = Rejected(f[2])

\* C28, amended: a handler that has resolved has no sub-request in flight and
\* has called every request handler of the step it resolved from; a handler
\* that has rejected has done so with the failure of a request of the step in
\* progress, which is the last step started.
C28_ResolvesWhenAllSettled ==
    Invoked =>
        /\ chain.result.state = "resolved" =>
             /\ chain.inflight = {}
             /\ chain.launched = RequestsOf(stepOf)
             /\ chain.pc = "returned"
        /\ chain.result.state = "rejected" =>
             /\ FailedUncaughtInStep
             /\ chain.started[Len(chain.started)] = chain.i

\* A handler that resolved out of a step with two requests.
C28_Witness ==
    /\ chain.result.state = "resolved"
    /\ Cardinality(chain.launched) = 2
    /\ Cardinality({ g \in chain.fulfilled : g[1][1] = chain.i }) = 2

\* ------------------------------------------------------- response massaging

\* Every request of step i has completed successfully or been caught.
RequestsDone(i) ==
    \A j \in RequestsOf(created.steps[i]) :
        SucceededAt(<<i, j>>) \/ CaughtAt(<<i, j>>)

\* Name a comes before name b in declaration order.
DeclaredBefore(a, b) == a[1] < b[1] \/ (a[1] = b[1] /\ a[2] < b[2])

\* C27: a response handler has run only when every request of its step had
\* completed successfully or been caught; the handlers of a step that has
\* resolved have all run, and they ran in the order the stanzas are declared,
\* whatever the order the requests completed in.
C27_MassageAfterRequests ==
    Invoked =>
        /\ \A k \in 1..Len(chain.massaged) : RequestsDone(chain.massaged[k][1])
        /\ \A k, l \in 1..Len(chain.massaged) :
               k < l => DeclaredBefore(chain.massaged[k], chain.massaged[l])
        /\ \A n \in Names :
               /\ n[1] <= Len(created.steps)
               /\ n[2] <= Len(created.steps[n[1]])
               /\ hasResponseHandler(created.steps[n[1]][n[2]])
               => (StepDone(n) <=> \E k \in 1..Len(chain.massaged) : chain.massaged[k] = n)

\* Two requests with `response` templates: the second completed first, the
\* first's template was expanded first.
C27_Witness ==
    /\ chain.pc = "returned"
    /\ chain.completed = << <<1, 2>>, <<1, 1>> >>
    /\ chain.massaged = << <<1, 1>>, <<1, 2>> >>

\* ----------------------------------------------- the status of a resolution

\* The dispatches that have settled and not yet been taken by their caller.
SettledLevels == { i \in Levels : stack[i].child /\ stack[i].pc = "settled" }

\* C26 as stated: a dispatch that resolves does so with a status in 100..399.
C26_Original ==
    \A i \in SettledLevels :
        stack[i].res.state = "resolved" => stack[i].res.val.status \in 100..399

\* C26, amended: a dispatch that resolves does so with a status in 100..399 or
\* with an Error object; a handler result that is no Error object and has a
\* status outside 100..399 or none, and an absent result, make the dispatch
\* reject.
C26_ResolvedStatus ==
    \A i \in SettledLevels :
        LET f == stack[i] IN
        /\ f.res.state = "resolved" =>
             /\ f.res.val.def
             /\ f.res.val.status \in 100..399 \/ f.res.val.isError
        /\ f.raw.state = "resolved"
               /\ (~f.raw.val.def
                   \/ (~f.raw.val.isError /\ f.raw.val.status \notin 100..399))
             => f.res.state = "rejected"

\* A handler resolved with a plain 404 response and the dispatch rejected.
C26_Witness ==
    \E i \in SettledLevels :
        /\ stack[i].raw.state = "resolved"
        /\ stack[i].raw.val.status = 404
        /\ ~stack[i].raw.val.isError
        /\ stack[i].res.state = "rejected"
        /\ stack[i].res.val.status = 404

\* ------------------------------------------------------ handler selection

\* The dispatches that were given an operation handler of the route's spec.
Dispatched ==
    { i \in Levels : stack[i].child /\ stack[i].handler \notin {"none", "listing"} }

\* The verb has no handler of its own on the route, and `all` has none.
NoOwnNorAll(uri, v) ==
    route(uri).methods[v] = "none" /\ route(uri).methods["all"] = "none"

\* C25 as stated: the handler invoked for verb v is the one registered for v,
\* else the one registered for `all`, else, for head only, the get handler.
C25_Original ==
    \A i \in Dispatched :
        stack[i].handler = OwnHandler(Req(stack[i]).uri, Req(stack[i]).method)

\* C25, amended: the handler invoked for verb v is the one registered for v,
\* else the one registered for `all`; the get handler is taken for a missing
\* one only when v is head or the root request of the context is a head.
C25_HandlerByVerb ==
    \A i \in Dispatched :
        LET uri == Req(stack[i]).uri
            v == Req(stack[i]).method
            ms == route(uri).methods
        IN  /\ route(uri).found
            /\ ms[v] # "none" => stack[i].handler = ms[v]
            /\ ms[v] = "none" /\ ms["all"] # "none" => stack[i].handler = ms["all"]
            /\ NoOwnNorAll(uri, v) =>
                 /\ stack[i].handler = ms["get"]
                 /\ v = "head" \/ rootMethod(i) = "head"

\* A post sub-request for /v1/sys/foo, which has a get handler only, made
\* while serving an external head request, was given the get handler.
C25_Witness ==
    \E i \in Dispatched :
        /\ i > 1
        /\ Req(stack[i]).method = "post"
        /\ Req(stack[i]).uri = U_sys
        /\ rootMethod(i) = "head"
        /\ stack[i].handler = route(U_sys).methods["get"]

\* ------------------------------------------------ configuration, maxDepth

\* The largest maxDepth a configuration of the model carries.
MaxConfigured == 12

\* A key of an options or configuration object: not set, or set to a number.
NotSet == [set |-> FALSE, value |-> 0]
SetTo(n) == [set |-> TRUE, value |-> n]

\* The service configurations: maxDepth not configured, or configured as N.
Confs == { [maxDepth |-> v] : v \in {NotSet} \cup { SetTo(n) : n \in 0..MaxConfigured } }

\* main(options): the options object the dispatcher is constructed with. The
\* configuration is kept under `conf`; no maxDepth key is set.
mainOpts(conf) == [conf |-> conf, maxDepth |-> NotSet]

\* v || d on a number or undefined.
orDefault(v, d) == IF v.set /\ v.value # 0 THEN v.value ELSE d

\* The constructor of a brand new instance: options.maxDepth = options.maxDepth || 10.
newHyperSwitch(options) == [options EXCEPT !.maxDepth = SetTo(orDefault(@, DefaultMaxDepth))]

\* The service: its configuration, the options of the dispatcher once it is
\* constructed, and the depth of the context a handler that dispatches to
\* itself has reached.
Service(conf) ==
    [pc |-> "main", conf |-> conf, options |-> mainOpts(conf), depth |-> 0]

InitConfig ==
    /\ maxDepth = DefaultMaxDepth
    /\ phase = "idle"
    /\ stack = <<>>
    /\ objs = <<>>
    /\ heap = <<>>
    /\ log = <<>>
    /\ client = NoClient
    /\ ChainUnused
    /\ \E conf \in Confs : router = Service(conf)

\* main: opts.hyper = new HyperSwitch(opts).
Main ==
    /\ router.pc = "main"
    /\ router' = [router EXCEPT !.pc = "serving", !.options = newHyperSwitch(mainOpts(router.conf))]
    /\ UNCHANGED <<dispatchVars, chainVars>>

\* A request on the context of depth router.depth: _filteredRequest refuses it
\* over the cap, else a child context is made and the handler runs on it.
FilteredRequest ==
    /\ router.pc = "serving"
    /\ router' = IF _checkMaxRecursionDepth(router.depth, router.options.maxDepth.value)
                 THEN [router EXCEPT !.pc = "exceeded"]
                 ELSE [router EXCEPT !.depth = @ + 1]
    /\ UNCHANGED <<dispatchVars, chainVars>>

\* The handler answers without a further sub-request.
HandlerAnswers ==
    /\ router.pc = "serving"
    /\ router.depth > 0
    /\ router' = [router EXCEPT !.pc = "answered"]
    /\ UNCHANGED <<dispatchVars, chainVars>>

NextConfig ==
    \/ Main
    \/ FilteredRequest
    \/ HandlerAnswers

SpecConfig == InitConfig /\ [][NextConfig]_vars

\* What the configuration asks for: its maxDepth, 10 when it has none.
ConfiguredCap ==
    IF router.conf.maxDepth.set THEN router.conf.maxDepth.value ELSE DefaultMaxDepth

\* C24 as stated: the cap the dispatcher enforces is the maxDepth of the
\* configuration for every configured N >= 0, and 10 when none is configured:
\* a request is refused exactly on a context deeper than that.
C24_Original ==
    router.pc \in {"serving", "exceeded", "answered"} =>
        /\ router.options.maxDepth = SetTo(ConfiguredCap)
        /\ router.depth <= ConfiguredCap + 1
        /\ router.pc = "exceeded" => router.depth = ConfiguredCap + 1

\* ------------------------------------------------- contexts of one request

\* The most contexts made for one external request in the model.
MaxContexts == 3

\* utils.generateRequestId(): the k-th id it hands out.
generateRequestId(k) == <<"generated", k>>

\* No id: a header that is not set, or null.
NoId == <<"none", 0>>

\* a || b on strings, of which Absent is the falsy one, and on ids.
OrAbsent(a, b) == IF a # Absent THEN a ELSE b
OrNoId(a, b) == IF a # NoId THEN a ELSE b

\* The header values of the model. An id is a pair, so that an incoming id and
\* a generated one are told apart.
IncomingIds == {NoId, <<"client", 1>>}
UserAgents == {Absent, "ua-1"}
SubRequestIds == {NoId, <<"client", 2>>}
SubUserAgents == {Absent, "ua-2"}
Addresses == {"10.0.0.1", "8.8.8.8"}
LOCAL_IP == {"10.0.0.1"}

Headers(id, ua, ip, cc) ==
    [xRequestId |-> id, userAgent |-> ua, xClientIp |-> ip, cacheControl |-> cc]

\* The per-request ctx object: null, or the object made by the context
\* `owner` with the headers it copied.
NullCtx == [null |-> TRUE, owner |-> 0, userAgent |-> Absent, xClientIp |-> Absent]
CtxObject(owner, headers) ==
    [null |-> FALSE, owner |-> owner, userAgent |-> headers.userAgent,
     xClientIp |-> headers.xClientIp]

NoParOptions == [requestClass |-> Absent]

\* new HyperSwitch(options), the brand new instance main() makes.
RootInstance ==
    [reqId |-> NoId, requestClass |-> "internal", _parent |-> 0, _req |-> 0,
     _recursionDepth |-> 0, _rootReq |-> 0, ctx |-> NullCtx]

\* new HyperSwitch(par, req, parOptions), the child instance. `par` and `req`
\* are the indices of the parent context and of the request object, `self`
\* the index the new context gets, `k` the number of ids generated so far.
childInstanceOwnHeaderFirst(contexts, par, req, headers, parOptions, self, k) ==
    LET p == contexts[par] IN
    [reqId |-> OrNoId(headers.xRequestId, OrNoId(p.reqId, generateRequestId(k + 1))),
     requestClass |-> OrAbsent(parOptions.requestClass, p.requestClass),
     _parent |-> par,
     _req |-> req,
     _recursionDepth |-> p._recursionDepth + 1,
     _rootReq |-> IF p._rootReq # 0 THEN p._rootReq ELSE req,
     ctx |-> IF ~p.ctx.null THEN p.ctx ELSE CtxObject(self, headers)]

childInstance(contexts, par, req, headers, parOptions, self, k) ==
    LET p == contexts[par] IN
    [reqId |-> OrNoId(p.reqId, OrNoId(headers.xRequestId, generateRequestId(k + 1))),
     requestClass |-> OrAbsent(parOptions.requestClass, p.requestClass),
     _parent |-> par,
     _req |-> req,
     _recursionDepth |-> p._recursionDepth + 1,
     _rootReq |-> IF p._rootReq # 0 THEN p._rootReq ELSE req,
     ctx |-> IF ~p.ctx.null THEN p.ctx ELSE CtxObject(self, headers)]

\* handleRequest: the headers it leaves on the incoming request and the
\* request class it passes in reqOpts.
handleRequestHeaders(headers, remoteAddress, k) ==
    [headers EXCEPT !.xRequestId = OrNoId(@, generateRequestId(k + 1)),
                    !.xClientIp = OrAbsent(@, remoteAddress)]

handleRequestClass(headers, remoteAddress) ==
    IF OrAbsent(headers.xClientIp, remoteAddress) \in LOCAL_IP
    THEN (IF headers.cacheControl = "no-cache" THEN "internal_update" ELSE "internal")
    ELSE "external"

\* One external request: the request as it came in, the request objects made
\* (the first is handleRequest's newReq), the contexts (the first is the root
\* instance), the options each child was made with, and the ids generated.
Serving(headers, remoteAddress) ==
    [pc |-> "incoming", incoming |-> headers, remoteAddress |-> remoteAddress,
     requests |-> <<>>, contexts |-> <<RootInstance>>, made |-> <<NoParOptions>>,
     reqOpts |-> NoParOptions, generated |-> 0]

InitContexts ==
    /\ maxDepth = DefaultMaxDepth
    /\ phase = "idle"
    /\ stack = <<>>
    /\ objs = <<>>
    /\ heap = <<>>
    /\ log = <<>>
    /\ client = NoClient
    /\ ChainUnused
    /\ \E id \in IncomingIds, ua \in UserAgents, ip \in Addresses \cup {Absent},
          cc \in {Absent, "no-cache"}, remote \in Addresses :
         router = Serving(Headers(id, ua, ip, cc), remote)

\* handleRequest up to opts.hyper.request(newReq, reqOpts).
HandleRequestContext ==
    /\ router.pc = "incoming"
    /\ LET hs == handleRequestHeaders(router.incoming, router.remoteAddress, router.generated)
       IN  router' = [router EXCEPT
               !.pc = "dispatch",
               !.generated = IF router.incoming.xRequestId = NoId THEN @ + 1 ELSE @,
               !.requests = <<hs>>,
               !.reqOpts = [requestClass |->
                              handleRequestClass(router.incoming, router.remoteAddress)]]
    /\ UNCHANGED <<dispatchVars, chainVars>>

\* _request on the root instance: makeChild(req, reqOpts) for the external
\* request.
MakeRootChild ==
    /\ router.pc = "dispatch"
    /\ LET self == Len(router.contexts) + 1
           c == childInstance(router.contexts, 1, 1, router.requests[1], router.reqOpts,
                              self, router.generated)
       IN  router' = [router EXCEPT
               !.pc = "handling",
               !.contexts = Append(@, c),
               !.made = Append(@, router.reqOpts),
               !.generated = IF c.reqId = generateRequestId(@ + 1) THEN @ + 1 ELSE @]
    /\ UNCHANGED <<dispatchVars, chainVars>>

\* A handler or filter running on context par dispatches a sub-request, with
\* headers of its own and with or without a request class in the options, and
\* _request makes the child.
MakeSubChild ==
    /\ router.pc = "handling"
    /\ Len(router.contexts) < MaxContexts + 1
    /\ \E par \in 2..Len(router.contexts), id \in SubRequestIds, ua \in SubUserAgents,
          rc \in {Absent, "internal_update"} :
         LET self == Len(router.contexts) + 1
             hs == Headers(id, ua, Absent, Absent)
             c == childInstance(router.contexts, par, self, hs, [requestClass |-> rc],
                                self, router.generated)
         IN  router' = [router EXCEPT
                 !.contexts = Append(@, c),
                 !.requests = Append(@, hs),
                 !.made = Append(@, [requestClass |-> rc]),
                 !.generated = IF c.reqId = generateRequestId(@ + 1) THEN @ + 1 ELSE @]
    /\ UNCHANGED <<dispatchVars, chainVars>>

NextContexts ==
    \/ HandleRequestContext
    \/ MakeRootChild
    \/ MakeSubChild

SpecContexts == InitContexts /\ [][NextContexts]_vars

\* The contexts made for the request (the root instance is made at startup).
Children == 2..Len(router.contexts)

\* The id of the request: the incoming one, else the one handleRequest made.
RequestId == OrNoId(router.incoming.xRequestId, generateRequestId(1))

\* C23: every context made while an external request is handled has its
\* parent's depth plus one, the request's id (the incoming x-request-id, or
\* the one id generated for it), the external request as its root request,
\* one and the same ctx with the user-agent and x-client-ip of the external
\* request, and its parent's request class unless its options name one; the
\* first has the class handleRequest chose.
C23_ContextChain ==
    router.pc = "handling" =>
        \A k \in Children :
            LET c == router.contexts[k]
                p == router.contexts[c._parent]
            IN  /\ c._parent \in 1..(k - 1)
                /\ c._recursionDepth = p._recursionDepth + 1
                /\ c.reqId = RequestId
                /\ router.generated = (IF router.incoming.xRequestId = NoId THEN 1 ELSE 0)
                /\ c._rootReq = 1
                /\ c.ctx = router.contexts[2].ctx
                /\ ~c.ctx.null
                /\ c.ctx.userAgent = router.requests[1].userAgent
                /\ c.ctx.xClientIp = router.requests[1].xClientIp
                /\ c.requestClass = OrAbsent(router.made[k].requestClass, p.requestClass)
                /\ router.made[k].requestClass = Absent /\ k > 2 =>
                       c.requestClass = p.requestClass

\* A sub-request that carried an x-request-id and a user-agent of its own, on
\* a request that came without an id: its context has the generated id and
\* the external request's user-agent.
C23_Witness ==
    /\ router.pc = "handling"
    /\ router.incoming.xRequestId = NoId
    /\ \E k \in Children :
         /\ k > 2
         /\ router.contexts[k]._recursionDepth = 3
         /\ router.requests[k - 1].xRequestId = <<"client", 2>>
         /\ router.requests[k - 1].userAgent = "ua-2"
         /\ router.incoming.userAgent = "ua-1"
         /\ router.contexts[k].reqId = generateRequestId(1)
         /\ router.contexts[k].ctx.userAgent = "ua-1"

\* ------------------------------------------------------- tags of an API root

\* The most tags in the `tags` of one spec, and the most specs merged into one
\* API root.
MaxTags == 2
MaxMerges == 3

\* A tag; its description may be missing.
Tag(name, description) == [name |-> name, description |-> description]
Tags == { Tag(n, d) : n \in {"a", "b"}, d \in {"d1", "d2", Absent} }

\* spec.tags || []
TagLists == UNION { [1..n -> Tags] : n \in 0..MaxTags }

\* `Tags ${t.name} must have the same descriptions.`
SameDescriptions(name) == <<"Tags", name, "must have the same descriptions.">>

\* self.findIndex(t => t.name === tag.name ...): the first entry of the name.
findIndex(self, tag) ==
    CHOOSE k \in 1..Len(self) :
        /\ self[k].name = tag.name
        /\ \A j \in 1..(k - 1) : self[j].name # tag.name

\* The entries of self at which the callback of findIndex throws.
Throwing(self) ==
    { i \in 1..Len(self) : self[findIndex(self, self[i])].description # self[i].description }

\* scope.specRoot.tags.concat(spec.tags || []).filter(...): the error thrown
\* (NoError when none) and the tags the root has afterwards.
mergeTagsKeepAll(rootTags, specTags) ==
    [error |-> NoError, tags |-> rootTags \o specTags]

mergeTags(rootTags, specTags) ==
    LET self == rootTags \o specTags
        kept == SelectSeq([i \in 1..Len(self) |-> i],
                          LAMBDA i : findIndex(self, self[i]) = i)
    IN  IF Throwing(self) # {}
        THEN [error |-> SameDescriptions(
                            self[CHOOSE i \in Throwing(self) :
                                     \A j \in Throwing(self) : i <= j].name),
              tags |-> rootTags]
        ELSE [error |-> NoError, tags |-> [k \in 1..Len(kept) |-> self[kept[k]]]]

\* The API root under construction: whether _createNewApiRoot has made it, its
\* specRoot.tags, the number of specs merged, the tags that went into the last
\* merge, and the error that failed the load.
ApiRoot ==
    [pc |-> "loading", created |-> FALSE, tags |-> <<>>, merged |-> 0,
     combined |-> <<>>, error |-> NoError]

InitTags ==
    /\ maxDepth = DefaultMaxDepth
    /\ phase = "idle"
    /\ stack = <<>>
    /\ objs = <<>>
    /\ heap = <<>>
    /\ log = <<>>
    /\ client = NoClient
    /\ ChainUnused
    /\ router = ApiRoot

\* _handleSwaggerSpec for a spec of the API: the root is made from the first
\* spec (specRoot.tags = spec.tags || []), then the spec's tags are merged in.
MergeSpecTags ==
    /\ router.pc = "loading"
    /\ router.merged < MaxMerges
    /\ \E specTags \in TagLists :
         LET rootTags == IF router.created THEN router.tags ELSE specTags
             m == mergeTags(rootTags, specTags)
         IN  router' = [router EXCEPT
                 !.created = TRUE,
                 !.tags = m.tags,
                 !.merged = @ + 1,
                 !.combined = rootTags \o specTags,
                 !.error = m.error,
                 !.pc = IF m.error = NoError THEN "loading" ELSE "failed"]
    /\ UNCHANGED <<dispatchVars, chainVars>>

NextTags == MergeSpecTags

SpecTags == InitTags /\ [][NextTags]_vars

\* Two entries of the list have the same name and different descriptions.
Conflicting(tags) ==
    \E i, j \in 1..Len(tags) :
        tags[i].name = tags[j].name /\ tags[i].description # tags[j].description

\* The names that have conflicting entries in the list.
ConflictingNames(tags) ==
    { tags[i].name : i \in { k \in 1..Len(tags) :
        \E j \in 1..Len(tags) :
            tags[k].name = tags[j].name /\ tags[k].description # tags[j].description } }

OnePerName(tags) ==
    \A i, j \in 1..Len(tags) : tags[i].name = tags[j].name => i = j

\* C22: after every merge that succeeded specRoot.tags has at most one entry
\* per name, and it has every name that went in; a merge fails, with `Tags
\* <name> must have the same descriptions.` for a name with two descriptions,
\* exactly when the tags combined hold two entries of one name with different
\* descriptions.
C22_TagsMerged ==
    router.merged > 0 =>
        /\ router.pc = "failed" <=> Conflicting(router.combined)
        /\ router.pc = "failed" =>
             \E n \in ConflictingNames(router.combined) : router.error = SameDescriptions(n)
        /\ router.pc = "loading" =>
             /\ router.error = NoError
             /\ OnePerName(router.tags)
             /\ { router.tags[i] : i \in 1..Len(router.tags) }
                    = { router.combined[i] : i \in 1..Len(router.combined) }

\* A third spec brought a tag the root has, with another description: the
\* load failed on it.
C22_Witness ==
    /\ router.pc = "failed"
    /\ router.merged = 3
    /\ Len(router.tags) = 2
    /\ router.error = SameDescriptions("b")

\* ------------------------------------------- options.templates, repeated loads

\* The router while it loads definitions that are objects of the spec: the
\* objects as they are now, as they were written, this._modules, and for each
\* load the object, the globals, and the options a module or filter was
\* constructed with (NoOptions when the module came from the cache).
DefLoader(objects, written, modules, loads) ==
    [pc |-> "definitions", objects |-> objects, written |-> written,
     modules |-> modules, loads |-> loads]

InitDefinitions ==
    /\ maxDepth = DefaultMaxDepth
    /\ phase = "idle"
    /\ stack = <<>>
    /\ objs = <<>>
    /\ heap = <<>>
    /\ log = <<>>
    /\ client = NoClient
    /\ ChainUnused
    /\ router = DefLoader(<<>>, <<>>, {}, <<>>)

\* The spec holds one more definition object.
NewDefinition ==
    /\ router.pc = "definitions"
    /\ Len(router.objects) < MaxLoads
    /\ \E def \in ModDefs :
         router' = [router EXCEPT !.objects = Append(@, def), !.written = Append(@, def)]
    /\ UNCHANGED <<dispatchVars, chainVars>>

\* _loadModule(modDef, globals) for a definition object of the spec: the
\* options are expanded, which edits the object, and a module is constructed
\* with them unless one is cached.
LoadModuleObject ==
    /\ router.pc = "definitions"
    /\ Len(router.loads) < MaxLoads
    /\ \E o \in 1..Len(router.objects), globals \in Globals :
         LET e == _expandOptions(router.objects[o], globals)
             c == _getCachedModule(router.modules, e.def, globals)
             r == _loadModule(router.modules, router.objects[o], globals,
                              Len(router.loads) + 1)
         IN  router' = [router EXCEPT
                 !.objects[o] = e.def,
                 !.modules = r.modules,
                 !.loads = Append(@, [object |-> o, globals |-> globals, kind |-> "module",
                                      constructed |-> c.module = {},
                                      options |-> e.options])]
    /\ UNCHANGED <<dispatchVars, chainVars>>

\* _loadFilter(filterDef, globals, method) for a definition object of the
\* spec: the options are expanded and handed to the filter.
LoadFilterObject ==
    /\ router.pc = "definitions"
    /\ Len(router.loads) < MaxLoads
    /\ \E o \in 1..Len(router.objects), globals \in Globals :
         LET e == _expandOptions(router.objects[o], globals)
         IN  router' = [router EXCEPT
                 !.objects[o] = e.def,
                 !.loads = Append(@, [object |-> o, globals |-> globals, kind |-> "filter",
                                      constructed |-> TRUE,
                                      options |-> e.options])]
    /\ UNCHANGED <<dispatchVars, chainVars>>

NextDefinitions ==
    \/ NewDefinition
    \/ LoadModuleObject
    \/ LoadFilterObject

SpecDefinitions == InitDefinitions /\ [][NextDefinitions]_vars

\* C21 as stated: every load of a definition written with options.templates,
\* a repeated load of the same object included, hands the module or filter
\* options that hold the templates as written.
C21_Original ==
    router.pc = "definitions" =>
        \A k \in 1..Len(router.loads) :
            LET l == router.loads[k]
                w == router.written[l.object]
            IN  l.constructed /\ w.options.def /\ w.options.templates # Absent =>
                    l.options.templates = w.options.templates

\* ------------------------------------------- catch / return_if predicates

\* The longest status option, the longest string value, and the most options
\* of a list in the catch definitions of the model.
MaxDigits == 3
MaxChars == 1
MaxOptions == 2

\* Text is a list of characters. The digits and the characters of the model.
Digits == {"0", "1"}
DigitValue(c) == IF c = "0" THEN 0 ELSE 1
Chars == {"a", "quote", "apostrophe"}

Texts(alphabet, n) == UNION { [1..k -> alphabet] : k \in 0..n }

\* Number.prototype.toString on a status.
RECURSIVE toStringNumber(_)
toStringNumber(n) ==
    IF n < 10 THEN <<CHOOSE c \in {"0", "1", "8", "9"} :
                        (c = "0" /\ n = 0) \/ (c = "1" /\ n = 1)
                            \/ (c = "8" /\ n = 8) \/ (c = "9" /\ n = 9)>>
    ELSE Append(toStringNumber(n \div 10), IF n % 10 = 0 THEN "0" ELSE "1")

\* The value of digits read in a base.
RECURSIVE valueIn(_, _)
valueIn(digits, base) ==
    IF digits = <<>> THEN 0
    ELSE valueIn(SubSeq(digits, 1, Len(digits) - 1), base) * base
             + DigitValue(digits[Len(digits)])

\* The value of the digits as a numeric literal of the generated code, which
\* new Function compiles as sloppy-mode code: a literal of more than one
\* digit that starts with 0 and has no 8 or 9 is octal.
NumericLiteralDecimal(digits) == valueIn(digits, 10)
NumericLiteral(digits) ==
    IF Len(digits) > 1 /\ digits[1] = "0" THEN valueIn(digits, 8) ELSE valueIn(digits, 10)

\* text.match(/^<opt with x replaced by \d>$/)
matchPattern(opt, text) ==
    /\ Len(text) = Len(opt)
    /\ \A i \in 1..Len(opt) : opt[i] = "x" \/ opt[i] = text[i]

\* json-stable-stringify of a string: quotes around it, a backslash before
\* every quote.
RECURSIVE escape(_)
escape(text) ==
    IF text = <<>> THEN <<>>
    ELSE (IF Head(text) = "quote" THEN <<"backslash", "quote">> ELSE <<Head(text)>>)
             \o escape(Tail(text))

stringify(text) == <<"quote">> \o escape(text) \o <<"quote">>

\* The value of '<text>' as a string literal of the generated code: a
\* backslash stands for the character after it.
RECURSIVE literalValue(_)
literalValue(text) ==
    IF text = <<>> THEN <<>>
    ELSE IF Head(text) = "backslash" /\ Len(text) > 1
    THEN <<text[2]>> \o literalValue(SubSeq(text, 3, Len(text)))
    ELSE <<Head(text)>> \o literalValue(Tail(text))

\* '<text>' is one string literal: no apostrophe ends it early.
IsLiteral(text) == \A i \in 1..Len(text) : text[i] # "apostrophe"

\* A field of a catch definition: not there, one option, or a list of them.
NoField == [kind |-> "none", options |-> <<>>]
OneOption(o) == [kind |-> "one", options |-> <<o>>]
ListOf(os) == [kind |-> "list", options |-> os]

StatusOptions == Texts(Digits \cup {"x"}, MaxDigits) \ {<<>>}
ShortStatusOptions == Texts(Digits \cup {"x"}, MaxDigits - 1) \ {<<>>}
BodyOptions == Texts(Chars, MaxChars)

FieldsOver(single, listed) ==
    {NoField} \cup { OneOption(o) : o \in single }
        \cup { ListOf(os) : os \in UNION { [1..k -> listed] : k \in 1..MaxOptions } }

CatchDefinitions ==
    { d \in [status : FieldsOver(StatusOptions, ShortStatusOptions),
             body : FieldsOver(BodyOptions, BodyOptions)] :
        /\ d.status # NoField \/ d.body # NoField
        /\ d.status.kind # "list" \/ d.body.kind # "list" }

\* The responses the predicates are applied to.
CatchStatuses == {0, 1, 8, 9, 10, 11, 100, 101, 110, 111}
CatchResponses == [status : CatchStatuses, body : BodyOptions]

\* createCondition for `status`: the condition of the generated code, here
\* as its value for a response.
statusCondition(opt, res) ==
    IF \A i \in 1..Len(opt) : opt[i] \in Digits
    THEN res.status = NumericLiteral(opt)
    ELSE matchPattern(opt, toStringNumber(res.status))

\* createCondition for another field.
otherCondition(opt, res) == stringify(res.body) = literalValue(stringify(opt))

\* The condition of a field: its option's condition, or the || of its list's.
fieldCondition(conditions) == \E i \in 1..Len(conditions) : conditions[i]

\* The conditions of the options of a field, for a response.
statusConditions(field, res) ==
    [i \in 1..Len(field.options) |-> statusCondition(field.options[i], res)]
otherConditions(field, res) ==
    [i \in 1..Len(field.options) |-> otherCondition(field.options[i], res)]

\* compileCatchFunction: new Function throws a SyntaxError when the code is
\* not a program.
compiles(def) ==
    \A i \in 1..Len(def.body.options) : IsLiteral(stringify(def.body.options[i]))

\* The compiled function applied to a response: the && of the conditions.
catchFunction(def, res) ==
    /\ def.status # NoField => fieldCondition(statusConditions(def.status, res))
    /\ def.body # NoField => fieldCondition(otherConditions(def.body, res))

\* A predicate being compiled and applied.
Catching(def) ==
    [pc |-> "definition", def |-> def, res |-> <<>>, matched |-> FALSE]

InitCatch ==
    /\ maxDepth = DefaultMaxDepth
    /\ phase = "idle"
    /\ stack = <<>>
    /\ objs = <<>>
    /\ heap = <<>>
    /\ log = <<>>
    /\ client = NoClient
    /\ ChainUnused
    /\ \E def \in CatchDefinitions : router = Catching(def)

CompileCatchFunction ==
    /\ router.pc = "definition"
    /\ router' = [router EXCEPT !.pc = IF compiles(router.def) THEN "compiled" ELSE "thrown"]
    /\ UNCHANGED <<dispatchVars, chainVars>>

ApplyCatchFunction ==
    /\ router.pc = "compiled"
    /\ \E res \in CatchResponses :
         router' = [router EXCEPT !.pc = "applied", !.res = res,
                                  !.matched = catchFunction(router.def, res)]
    /\ UNCHANGED <<dispatchVars, chainVars>>

NextCatch ==
    \/ CompileCatchFunction
    \/ ApplyCatchFunction

SpecCatch == InitCatch /\ [][NextCatch]_vars

\* What the definition asks of a response, field by field.
StatusMatches(opt, res) ==
    IF \A i \in 1..Len(opt) : opt[i] \in Digits
    THEN res.status = NumericLiteralDecimal(opt)
    ELSE matchPattern(opt, toStringNumber(res.status))

BodyMatches(opt, res) == stringify(res.body) = stringify(opt)

DefinitionMatches(def, res) ==
    /\ def.status # NoField =>
          \E i \in 1..Len(def.status.options) : StatusMatches(def.status.options[i], res)
    /\ def.body # NoField =>
          \E i \in 1..Len(def.body.options) : BodyMatches(def.body.options[i], res)

\* C31 as stated: the compiled predicate is true for a response exactly when
\* every field of the definition matches it: a status in digits only that
\* status, a pattern the statuses of its length that agree off the x's, a list
\* when one element matches, another field when the serialisations are equal.
C31_Original ==
    router.pc = "applied" =>
        (router.matched <=> DefinitionMatches(router.def, router.res))

\* ------------------------------------------------- the route filters' chain

\* The request classes of the model; a root request may carry none.
RequestClasses == {"internal", "external"}

\* The options of the rate limit filter: none, or the classes that have a
\* limit and the log_only flag.
NoLimitOptions == [set |-> FALSE, limits |-> {}, log_only |-> FALSE]
LimitOptions == [set : {TRUE}, limits : SUBSET RequestClasses, log_only : BOOLEAN]

\* The errors the default filters throw.
BadRequest == HTTPError(Response(400, "bad_request", {}, "content"))
RateExceeded == HTTPError(Response(429, "request_rate_exceeded", {}, "content"))

\* What P.method(handler) settles with.
FilteredHandlerResults ==
    {Resolved(OkResponse), Resolved(Response(404, "not_found", {}, "content")),
     Rejected(HTTPError(Response(500, "server_error", {}, "content")))}

\* loadSpec puts the metrics and the validator filters before the spec's own
\* x-route-filters.
routeFilters(specFilters) == <<"metrics", "validator">> \o specFilters

\* One call of a handler made by _createFilteredHandler: the filters, the
\* index of the next one, the context's collaborators, the request and the
\* operation's spec, and what has happened so far.
Filtering(specFilters, metrics, ratelimiter, requestClass, options, valid, parameters) ==
    [pc |-> "chain", filters |-> routeFilters(specFilters), filterIdx |-> 1,
     hyper |-> [metrics |-> metrics, ratelimiter |-> ratelimiter,
                requestClass |-> requestClass],
     options |-> options, req |-> [valid |-> valid],
     specInfo |-> [parameters |-> parameters],
     calls |-> <<>>, timing |-> FALSE, attached |-> FALSE, failed |-> "",
     above |-> FALSE, logged |-> <<>>, emitted |-> <<>>,
     settled |-> Pending, outcome |-> Pending]

\* handlerWrapper entered for the filter at filterIdx.
entered(r, name) == [r EXCEPT !.calls = Append(@, name)]

\* next(hyper, req): handlerWrapper with the next index.
callNext(r) == [r EXCEPT !.filterIdx = @ + 1]

\* A filter throws before it calls next: the throw leaves every filter that
\* is waiting in its own call of next, and the promise _request built around
\* the filtered handler is rejected with it.
throwBeforeNext(r, name, err) ==
    [r EXCEPT !.pc = "done", !.failed = name, !.outcome = Rejected(err)]

\* filters/metrics.js: without the collaborator, next; with it, the timer is
\* started and the callbacks are put on the promise next returns.
metricsFilter(r) ==
    IF ~r.hyper.metrics THEN callNext(r)
    ELSE callNext([r EXCEPT !.timing = TRUE])

\* filters/validator.js: validate(req) throws, else next.
validatorFilterLenient(r) ==
    IF r.specInfo.parameters /\ ~r.req.valid
    THEN callNext([r EXCEPT !.failed = "validator"])
    ELSE callNext(r)

validatorFilter(r) ==
    IF r.specInfo.parameters /\ ~r.req.valid
    THEN throwBeforeNext(r, "validator", BadRequest)
    ELSE callNext(r)

\* filters/ratelimit_route.js, with what isAboveLimit answers.
ratelimit_routeAlwaysThrows(r, isAboveLimit) ==
    IF ~r.hyper.ratelimiter THEN callNext(r)
    ELSE IF ~r.options.set \/ r.hyper.requestClass \notin r.options.limits
    THEN callNext(r)
    ELSE IF isAboveLimit
    THEN throwBeforeNext([r EXCEPT !.above = TRUE,
                                   !.logged = Append(@, "warn/ratelimit")],
                         "ratelimit", RateExceeded)
    ELSE callNext(r)

ratelimit_route(r, isAboveLimit) ==
    IF ~r.hyper.ratelimiter THEN callNext(r)
    ELSE IF ~r.options.set \/ r.hyper.requestClass \notin r.options.limits
    THEN callNext(r)
    ELSE IF isAboveLimit
    THEN LET warned == [r EXCEPT !.above = TRUE,
                                 !.logged = Append(@, "warn/ratelimit")]
         IN  IF ~r.options.log_only
             THEN throwBeforeNext(warned, "ratelimit", RateExceeded)
             ELSE callNext(warned)
    ELSE callNext(r)

\* emitMetric's status label; NoStatus stands for 'unknown'.
statusCode(res) == IF res.def /\ res.status # 0 THEN res.status ELSE NoStatus

InitFilters ==
    /\ maxDepth = DefaultMaxDepth
    /\ phase = "idle"
    /\ stack = <<>>
    /\ objs = <<>>
    /\ heap = <<>>
    /\ log = <<>>
    /\ client = NoClient
    /\ ChainUnused
    /\ \E specFilters \in {<<>>, <<"ratelimit">>},
          metrics \in BOOLEAN, ratelimiter \in BOOLEAN,
          requestClass \in RequestClasses \cup {Absent},
          options \in {NoLimitOptions} \cup LimitOptions,
          valid \in BOOLEAN, parameters \in BOOLEAN :
         router = Filtering(specFilters, metrics, ratelimiter, requestClass,
                            options, valid, parameters)

AtFilter(name) ==
    /\ router.pc = "chain"
    /\ router.filterIdx <= Len(router.filters)
    /\ router.filters[router.filterIdx] = name

MetricsFilter ==
    /\ AtFilter("metrics")
    /\ router' = metricsFilter(entered(router, "metrics"))
    /\ UNCHANGED <<dispatchVars, chainVars>>

ValidatorFilter ==
    /\ AtFilter("validator")
    /\ router' = validatorFilter(entered(router, "validator"))
    /\ UNCHANGED <<dispatchVars, chainVars>>

RatelimitFilter ==
    /\ AtFilter("ratelimit")
    /\ \E isAboveLimit \in BOOLEAN :
         router' = ratelimit_route(entered(router, "ratelimit"), isAboveLimit)
    /\ UNCHANGED <<dispatchVars, chainVars>>

\* The end of the chain: P.method(handler) is called and its promise goes
\* back through every filter's `return next(...)`; the metrics filter puts
\* its callbacks on it.
CallFilteredHandler ==
    /\ router.pc = "chain"
    /\ router.filterIdx = Len(router.filters) + 1
    /\ router' = [entered(router, "handler") EXCEPT !.pc = "handler",
                                                    !.attached = router.timing]
    /\ UNCHANGED <<dispatchVars, chainVars>>

\* The handler's promise settles; without callbacks on it, it is the outcome.
FilteredHandlerSettled ==
    /\ router.pc = "handler"
    /\ \E result \in FilteredHandlerResults :
         router' = IF router.attached
                   THEN [router EXCEPT !.pc = "callback", !.settled = result]
                   ELSE [router EXCEPT !.pc = "done", !.settled = result,
                                       !.outcome = result]
    /\ UNCHANGED <<dispatchVars, chainVars>>

\* The callbacks of the metrics filter: emit, then return res or throw err.
MetricsCallback ==
    /\ router.pc = "callback"
    /\ router' = [router EXCEPT !.pc = "done",
                                !.emitted = Append(@, statusCode(router.settled.val)),
                                !.outcome = router.settled]
    /\ UNCHANGED <<dispatchVars, chainVars>>

NextFilters ==
    \/ MetricsFilter
    \/ ValidatorFilter
    \/ RatelimitFilter
    \/ CallFilteredHandler
    \/ FilteredHandlerSettled
    \/ MetricsCallback

SpecFilters == InitFilters /\ [][NextFilters]_vars

\* The filters and the handler invoked after the named one.
CalledAfter(name) ==
    { router.calls[j] : j \in { j \in 1..Len(router.calls) :
        \E i \in 1..(j - 1) : router.calls[i] = name } }

\* The validator rejects the request.
ValidatorRejects == router.specInfo.parameters /\ ~router.req.valid

\* C32: when a route filter fails before it calls next (the validator
\* rejecting a request with 400 bad_request), no later filter and no handler
\* is invoked, and the filter's failure is the outcome of the dispatch.
C32_FilterFailureEndsChain ==
    /\ ("validator" \in Range(router.calls) /\ ValidatorRejects) =>
          /\ CalledAfter("validator") = {}
          /\ router.outcome = Rejected(BadRequest)
          /\ router.pc = "done"
    /\ router.failed # "" =>
          /\ CalledAfter(router.failed) = {}
          /\ "handler" \notin Range(router.calls)
          /\ router.outcome.state = "rejected"

C32_Witness ==
    /\ router.failed = "validator"
    /\ router.filters = <<"metrics", "validator", "ratelimit">>
    /\ router.calls = <<"metrics", "validator">>
    /\ router.outcome = Rejected(BadRequest)

\* C33 as stated: with a metrics collaborator, every request that enters the
\* metrics filter yields exactly one metric emission labelled with the
\* outcome's status, whether the rest of the chain succeeds or fails (a
\* failure of an inner filter such as the validator included), and the
\* outcome is passed on unchanged.
C33_Original ==
    /\ Len(router.emitted) <= 1
    /\ (router.pc = "done" /\ router.hyper.metrics /\ "metrics" \in Range(router.calls)) =>
          /\ router.emitted = <<statusCode(router.outcome.val)>>
          /\ router.settled.state # "pending" => router.outcome = router.settled

\* The rate limit filter has a limiter and a limit for the request's class.
Limited ==
    /\ router.hyper.ratelimiter
    /\ router.options.set
    /\ router.hyper.requestClass \in router.options.limits

\* The rate limit filter went on to next: the handler is the next to be
\* called, or has been called.
RatelimitProceeded ==
    /\ router.failed = ""
    /\ router.pc = "chain" => router.filterIdx = Len(router.filters) + 1
    /\ router.pc # "chain" => "handler" \in Range(router.calls)

PathPatterns == {"/foo", "/foo{/bar}"}
PatternOrders == {<<"/foo", "/foo{/bar}">>, <<"/foo{/bar}", "/foo">>}

\* A node of the route tree that is not there, and a node without a value.
\* Value objects are numbered in the order _handlePaths makes them; a node
\* holds the number of its value.
NoNode == [exists |-> FALSE, value |-> 0]
NewNode == [exists |-> TRUE, value |-> 0]

\* The router while _handlePaths goes through `paths`: the patterns and
\* their path specs in key order, the /foo node and its {/bar} child, the
\* methods of every value object, and the error the load rejects with.
OverlapLoader(disable_handlers, patterns, pathspecs) ==
    [pc |-> "paths", disable_handlers |-> disable_handlers,
     patterns |-> patterns, pathspecs |-> pathspecs, done |-> 0,
     foo |-> NoNode, bar |-> NoNode, values |-> <<>>, error |-> NoError]

\* _buildPath(rootNode, [foo], value): the /foo node is made when missing;
\* `foo` is not an optional segment, so no value is set here.
_buildPath(r) == IF r.foo.exists THEN r ELSE [r EXCEPT !.foo = NewNode]

\* The body of P.each in _handlePaths for one pattern, _handleSwaggerPathSpec
\* and its _registerMethods included.
_handlePaths(r, pattern, pathspec) ==
    LET value == Len(r.values) + 1
        made == [r EXCEPT !.values = Append(@, {})]
        built == IF pattern = "/foo"
                 THEN (IF made.foo.exists THEN made
                       ELSE [made EXCEPT !.foo = [exists |-> TRUE, value |-> value]])
                 ELSE LET b == _buildPath(made)
                      IN  IF b.bar.exists THEN b
                          ELSE [b EXCEPT !.bar = [exists |-> TRUE, value |-> value],
                                         !.foo.value = value]
        subtree == IF pattern = "/foo" THEN built.foo ELSE built.bar
        reg == _registerMethods(built.values[subtree.value], pathspec,
                                r.disable_handlers, 1)
    IN  [built EXCEPT !.values[subtree.value] = reg.methods,
                      !.error = reg.error,
                      !.done = @ + 1,
                      !.pc = IF reg.error # NoError THEN "failed"
                             ELSE IF r.done + 1 = Len(r.patterns) THEN "loaded"
                             ELSE "paths"]

InitOverlap ==
    /\ maxDepth = DefaultMaxDepth
    /\ phase = "idle"
    /\ stack = <<>>
    /\ objs = <<>>
    /\ heap = <<>>
    /\ log = <<>>
    /\ client = NoClient
    /\ ChainUnused
    /\ \E d \in BOOLEAN, patterns \in PatternOrders,
          pathspecs \in [1..2 -> PathSpecs] :
         router = OverlapLoader(d, patterns, pathspecs)

HandlePath ==
    /\ router.pc = "paths"
    /\ router' = _handlePaths(router, router.patterns[router.done + 1],
                              router.pathspecs[router.done + 1])
    /\ UNCHANGED <<dispatchVars, chainVars>>

NextOverlap == HandlePath

SpecOverlap == InitOverlap /\ [][NextOverlap]_vars

\* The methods a path spec registers when it is handled alone.
MethodsOf(pathspec) == _registerMethods({}, pathspec, router.disable_handlers, 1)

\* The spec defines methods on both patterns.
BothDefineMethods ==
    \A k \in 1..2 :
        /\ MethodsOf(router.pathspecs[k]).error = NoError
        /\ MethodsOf(router.pathspecs[k]).methods # {}

\* The methods of the /foo node.
FooMethods == router.values[router.foo.value]

\* C35 as stated: a spec that defines methods on both /foo and /foo{/bar}
\* fails to load in either declaration order; no load completes with the
\* /foo node's methods replaced or hidden by the value of /foo{/bar}.
C35_Original ==
    /\ BothDefineMethods => router.pc # "loaded"
    /\ router.pc = "loaded" =>
          \A k \in 1..2 : router.patterns[k] = "/foo" =>
              MethodsOf(router.pathspecs[k]).methods \subseteq FooMethods

\* ------------------------------------------ what serving requests writes to
\* The most requests served in the model.
MaxRequests == 3

\* The prefixes that have an api root (meta) node, and the path nodes.
Prefixes == {"", "/v1"}
PagePath == "/v1/page"

\* _createNewApiRoot: the value of the api root node of a prefix.
apiRootValueWithoutPath(prefixPath) ==
    [specRoot |-> prefixPath, methods |-> {}, path |-> ""]

apiRootValue(prefixPath) ==
    [specRoot |-> prefixPath, methods |-> {}, path |-> prefixPath \o "/"]

\* The value of a path node made by _handlePaths.
pathValue(path, methods) == [specRoot |-> "/v1", methods |-> methods, path |-> path]

\* The route tree loadSpec leaves: api roots under "meta:<prefix>", and a page.
treeOf(prefixes) ==
    [node \in { "meta:" \o p : p \in prefixes } \cup {PagePath} |->
        IF node = PagePath THEN pathValue(PagePath, {"get"})
        ELSE apiRootValue(CHOOSE p \in prefixes : node = "meta:" \o p)]

\* The options of the http filter as _loadFilter leaves them: `allow` items
\* with their patterns as written in the config, and an empty _cache.
AllowItem(pattern) == [pattern |-> pattern, compiled |-> FALSE]
HttpOptions(allow) == [allow |-> allow, _cache |-> [allowSwitch |-> FALSE]]
AllowLists == {<<>>, <<AllowItem("a")>>, <<AllowItem("a"), AllowItem("/b/")>>}

\* utils.constructRegex([item.pattern]) on every item, and the switch put in
\* the cache.
compileAllow(options) ==
    [allow |-> [i \in 1..Len(options.allow) |->
                    [options.allow[i] EXCEPT !.compiled = TRUE]],
     _cache |-> [allowSwitch |-> TRUE]]

\* filters/http.js up to the match: an empty `allow` list is still truthy.
httpFilterOptions(options) ==
    IF ~options._cache.allowSwitch THEN compileAllow(options) ELSE options

\* The metaMatch part of _request for a GET of <prefix>/: the value of the
\* api root node after `value.path = value.path || '_defaultListingHandler'`.
listingPath(value) ==
    [value EXCEPT !.path = IF @ # "" THEN @ ELSE "_defaultListingHandler"]

\* A loaded service: the tree and the filter options now, as loadSpec left
\* them, and the requests served.
Loaded(tree, options) ==
    [pc |-> "serving", tree |-> tree, options |-> options,
     loadedTree |-> tree, loadedOptions |-> options,
     served |-> <<>>]

InitFrame ==
    /\ maxDepth = DefaultMaxDepth
    /\ phase = "idle"
    /\ stack = <<>>
    /\ objs = <<>>
    /\ heap = <<>>
    /\ log = <<>>
    /\ client = NoClient
    /\ ChainUnused
    /\ \E prefixes \in (SUBSET Prefixes) \ {{}}, allow \in AllowLists :
         router = Loaded(treeOf(prefixes), HttpOptions(allow))

CanServe ==
    /\ router.pc = "serving"
    /\ Len(router.served) < MaxRequests

\* _request for a path with a handler: req.params is set, the handler runs.
ServeRoute ==
    /\ CanServe
    /\ router' = [router EXCEPT !.served = Append(@, "route")]
    /\ UNCHANGED <<dispatchVars, chainVars>>

\* _request for GET <prefix>/, with or without an api root there.
ServeListing ==
    /\ CanServe
    /\ \E p \in Prefixes :
         LET node == "meta:" \o p
         IN  router' = [router EXCEPT
                 !.served = Append(@, "listing"),
                 !.tree = IF node \in DOMAIN router.tree
                          THEN [@ EXCEPT ![node] = listingPath(@)]
                          ELSE @]
    /\ UNCHANGED <<dispatchVars, chainVars>>

\* A sub-request that goes through the http filter.
ServeHttp ==
    /\ CanServe
    /\ router' = [router EXCEPT !.served = Append(@, "http"),
                                !.options = httpFilterOptions(@)]
    /\ UNCHANGED <<dispatchVars, chainVars>>

NextFrame ==
    \/ ServeRoute
    \/ ServeListing
    \/ ServeHttp

SpecFrame == InitFrame /\ [][NextFrame]_vars

\* C36 as stated: after loadSpec, handling any sequence of requests leaves
\* the route tree, the merged specs, the compiled handlers and the filter
\* closures with their options unchanged.
C36_Original ==
    /\ router.tree = router.loadedTree
    /\ router.options = router.loadedOptions

\* C36, amended: the route tree with its specs and handlers is unchanged,
\* and the options of a filter change only by what the filter caches in them
\* on its first request: the http filter's compiled allow patterns and its
\* switch in options._cache.
C36_FrameButFilterCaches ==
    /\ router.tree = router.loadedTree
    /\ \/ router.options = router.loadedOptions
       \/ /\ "http" \in Range(router.served)
          /\ router.options = compileAllow(router.loadedOptions)
    /\ "http" \notin Range(router.served) => router.options = router.loadedOptions

C36_Witness ==
    /\ router.served = <<"listing", "http", "http">>
    /\ router.options # router.loadedOptions
    /\ Len(router.options.allow) = 2

\* --------------------------------- overlapping calls of one compiled handler
\* The handler is createHandler([{a: {request, return_if: {status: 200}}},
\* {b: {request, return: true}}]); it is called up to MaxInvocations times
\* before any of the calls has finished.
MaxInvocations == 2
Invocations == 1..MaxInvocations

\* The sub-requests' responses: a status and the call whose request it
\* answers.
NoResponse == [status |-> 0, of |-> 0]
SubResponse(status, k) == [status |-> status, of |-> k]
SubStatuses == {200, 204, 302}

\* The ctx object the returned function makes: the model holds `request` and,
\* later, the responses by request name; _doReturn is '' for false.
newCtx(req) ==
    [model |-> [request |-> req, a |-> NoResponse, b |-> NoResponse],
     _doReturn |-> ""]

\* The ctx a call works on: the one it made itself.
ctxSharedByCalls(k) == 1

ctxOfCall(k) == k

\* shouldReturn of request `a` (return_if: {status: 200}) and of `b`
\* (return: true).
shouldReturnA(res) == IF res.status = 200 THEN "a" ELSE ""
shouldReturnB(res) == "b"

\* ctx.model[ctx._doReturn]
modelAtMarker(c) ==
    IF c._doReturn = "a" THEN c.model.a
    ELSE IF c._doReturn = "b" THEN c.model.b
    ELSE NoResponse

\* The calls of the handler: where each is, the ctx objects, what each call
\* was given and what it answered.
Calls ==
    [pc |-> [k \in Invocations |-> "idle"],
     ctx |-> [k \in Invocations |-> newCtx(0)],
     given |-> [k \in Invocations |-> [request |-> 0, a |-> NoResponse, b |-> NoResponse]],
     result |-> [k \in Invocations |-> NoResponse]]

InitCalls ==
    /\ maxDepth = DefaultMaxDepth
    /\ phase = "idle"
    /\ stack = <<>>
    /\ objs = <<>>
    /\ heap = <<>>
    /\ log = <<>>
    /\ client = NoClient
    /\ ChainUnused
    /\ router = Calls

\* The compiled handler is called with a request: the ctx is made and step 0
\* sends request `a`.
CallHandler(k) ==
    /\ router.pc[k] = "idle"
    /\ router' = [router EXCEPT !.pc[k] = "a",
                                !.ctx[ctxOfCall(k)] = newCtx(k),
                                !.given[k].request = k]
    /\ UNCHANGED <<dispatchVars, chainVars>>

\* The response to `a` arrives: the request handler stores it in the model
\* and sets the return marker.
SettleA(k) ==
    /\ router.pc[k] = "a"
    /\ \E status \in SubStatuses :
         LET res == SubResponse(status, k)
         IN  router' = [router EXCEPT !.pc[k] = "afterA",
                                      !.ctx[ctxOfCall(k)].model.a = res,
                                      !.ctx[ctxOfCall(k)]._doReturn = shouldReturnA(res),
                                      !.given[k].a = res]
    /\ UNCHANGED <<dispatchVars, chainVars>>

\* runStep's callback after step 0: return the marked response, or run step
\* 1, which sends request `b`.
AfterA(k) ==
    /\ router.pc[k] = "afterA"
    /\ LET c == router.ctx[ctxOfCall(k)]
       IN  router' = IF c._doReturn # ""
                     THEN [router EXCEPT !.pc[k] = "done",
                                         !.result[k] = modelAtMarker(c)]
                     ELSE [router EXCEPT !.pc[k] = "b"]
    /\ UNCHANGED <<dispatchVars, chainVars>>

SettleB(k) ==
    /\ router.pc[k] = "b"
    /\ \E status \in SubStatuses :
         LET res == SubResponse(status, k)
         IN  router' = [router EXCEPT !.pc[k] = "afterB",
                                      !.ctx[ctxOfCall(k)].model.b = res,
                                      !.ctx[ctxOfCall(k)]._doReturn = shouldReturnB(res),
                                      !.given[k].b = res]
    /\ UNCHANGED <<dispatchVars, chainVars>>

\* runStep's callback after the last step.
AfterB(k) ==
    /\ router.pc[k] = "afterB"
    /\ router' = [router EXCEPT !.pc[k] = "done",
                                !.result[k] = modelAtMarker(router.ctx[ctxOfCall(k)])]
    /\ UNCHANGED <<dispatchVars, chainVars>>

NextCalls ==
    \/ \E k \in Invocations : CallHandler(k)
    \/ \E k \in Invocations : SettleA(k)
    \/ \E k \in Invocations : AfterA(k)
    \/ \E k \in Invocations : SettleB(k)
    \/ \E k \in Invocations : AfterB(k)

SpecCalls == InitCalls /\ [][NextCalls]_vars

\* What a call answers when it runs alone with the responses it was given.
AloneResult(k) ==
    IF router.given[k].a.status = 200 THEN router.given[k].a ELSE router.given[k].b

\* C37: two overlapping invocations of the same compiled handler do not
\* affect each other; each has its own model and return marker: a call that
\* has started sees its own request and responses in its model, and what it
\* answers is what it answers when it runs alone.
C37_CallsIndependent ==
    \A k \in Invocations :
        /\ router.pc[k] # "idle" =>
              /\ router.ctx[k].model.request = k
              /\ router.ctx[k].model.a = router.given[k].a
              /\ router.ctx[k].model.b = router.given[k].b
        /\ router.pc[k] = "done" => router.result[k] = AloneResult(k)

C37_Witness ==
    /\ router.pc[1] = "done"
    /\ router.pc[2] = "afterA"
    /\ router.given[1].a.status = 204
    /\ router.given[2].a.status = 200
    /\ router.result[1] = SubResponse(200, 1)
    /\ router.ctx[2]._doReturn = "a"
    /\ router.ctx[1]._doReturn = "b"

\* ------------------------------------------- lib/router.js: _requireModule
\* The names _requireModule may hand to require: the path as given, the path
\* joined to appBasePath, and the path joined to appBasePath/node_modules.
Candidates == <<"given", "base", "node_modules">>

\* What require does with a name: it returns the module, it throws `Cannot
\* find module '<name>'`, or it throws something else (the module is there
\* and fails while it loads, or one of its own requires is not found).
RequireOutcomes == {"module", "cannotFind", "otherError"}

\* A search in progress: opts ({mod, baseTried, modsTried}), the name of the
\* next require, the names tried, and how it ended.
Requiring(absolute, outcomes) ==
    [pc |-> "require", absolute |-> absolute, outcomes |-> outcomes,
     modName |-> "given", opts |-> [baseTried |-> FALSE, modsTried |-> FALSE],
     tried |-> <<>>, loaded |-> "", error |-> "", moduleName |-> ""]

\* One call of _requireModule: the require and its catch block.
_requireModuleNamingLastTried(r) ==
    LET tried == [r EXCEPT !.tried = Append(@, r.modName)]
        outcome == r.outcomes[r.modName]
    IN  IF outcome = "module"
        THEN [tried EXCEPT !.pc = "loaded", !.loaded = r.modName]
        ELSE IF outcome = "otherError"
        THEN [tried EXCEPT !.pc = "thrown", !.error = "otherError"]
        ELSE IF r.absolute \/ (r.opts.baseTried /\ r.opts.modsTried)
        THEN [tried EXCEPT !.pc = "thrown", !.error = "cannotFind",
                           !.moduleName = r.modName]
        ELSE IF ~r.opts.baseTried
        THEN [tried EXCEPT !.opts.baseTried = TRUE, !.modName = "base"]
        ELSE [tried EXCEPT !.opts.modsTried = TRUE, !.modName = "node_modules"]

_requireModule(r) ==
    LET tried == [r EXCEPT !.tried = Append(@, r.modName)]
        outcome == r.outcomes[r.modName]
    IN  IF outcome = "module"
        THEN [tried EXCEPT !.pc = "loaded", !.loaded = r.modName]
        ELSE IF outcome = "otherError"
        THEN [tried EXCEPT !.pc = "thrown", !.error = "otherError"]
        ELSE IF r.absolute \/ (r.opts.baseTried /\ r.opts.modsTried)
        THEN [tried EXCEPT !.pc = "thrown", !.error = "cannotFind",
                           !.moduleName = "given"]
        ELSE IF ~r.opts.baseTried
        THEN [tried EXCEPT !.opts.baseTried = TRUE, !.modName = "base"]
        ELSE [tried EXCEPT !.opts.modsTried = TRUE, !.modName = "node_modules"]

InitRequire ==
    /\ maxDepth = DefaultMaxDepth
    /\ phase = "idle"
    /\ stack = <<>>
    /\ objs = <<>>
    /\ heap = <<>>
    /\ log = <<>>
    /\ client = NoClient
    /\ ChainUnused
    /\ \E absolute \in BOOLEAN, outcomes \in [Range(Candidates) -> RequireOutcomes] :
         router = Requiring(absolute, outcomes)

RequireModule ==
    /\ router.pc = "require"
    /\ router' = _requireModule(router)
    /\ UNCHANGED <<dispatchVars, chainVars>>

NextRequire == RequireModule

SpecRequire == InitRequire /\ [][NextRequire]_vars

\* The candidates in order up to the first that satisfies P, all of them if
\* none does.
UpToFirst(hits) ==
    IF hits = {} THEN Candidates
    ELSE SubSeq(Candidates, 1, CHOOSE i \in hits : \A j \in hits : i <= j)

Succeeds(c) == router.outcomes[c] = "module"
Found(c) == router.outcomes[c] # "cannotFind"
Succeeding == { i \in 1..Len(Candidates) : Succeeds(Candidates[i]) }
Finding == { i \in 1..Len(Candidates) : Found(Candidates[i]) }

SearchEnded == router.pc \in {"loaded", "thrown"}

\* C38 as stated: a non-absolute path is tried as given, then under
\* appBasePath, then under appBasePath/node_modules, stopping at the first
\* success; when all fail the error's moduleName is the path as given; an
\* absolute path is tried exactly once.
C38_Original ==
    SearchEnded =>
        IF router.absolute THEN router.tried = <<"given">>
        ELSE /\ router.tried = UpToFirst(Succeeding)
             /\ (\A i \in 1..Len(Candidates) : ~Succeeds(Candidates[i])) =>
                   /\ router.pc = "thrown"
                   /\ router.moduleName = "given"

\* C38, amended: the search goes on only past a candidate that cannot be
\* found; it ends at the first candidate that is there, with the module or,
\* if the candidate fails otherwise, with that error and no moduleName. When
\* no candidate is found the error's moduleName is the path as given.
C38_RequireOrder ==
    SearchEnded =>
        /\ router.tried = (IF router.absolute THEN <<"given">> ELSE UpToFirst(Finding))
        /\ Len(router.tried) <= 3
        /\ LET last == router.tried[Len(router.tried)]
           IN  /\ Succeeds(last) <=> (router.pc = "loaded" /\ router.loaded = last)
               /\ router.outcomes[last] = "otherError" <=>
                     (router.pc = "thrown" /\ router.moduleName = "")
               /\ router.outcomes[last] = "cannotFind" <=>
                     (router.pc = "thrown" /\ router.moduleName = "given")

C38_Witness ==
    /\ router.pc = "thrown"
    /\ ~router.absolute
    /\ router.tried = <<"given", "base", "node_modules">>
    /\ router.moduleName = "given"

\* ------------------------------- filters/validator.js: boolean parameters
\* Parameter values are lists of characters. The words of the model, and the
\* values: a word, or up to MaxWords words one after the other.
MaxWords == 2

Word(s) ==
    CASE s = "true" -> <<"t", "r", "u", "e">>
      [] s = "True" -> <<"T", "r", "u", "e">>
      [] s = "false" -> <<"f", "a", "l", "s", "e">>
      [] s = "FALSE" -> <<"F", "A", "L", "S", "E">>
      [] s = "yes" -> <<"y", "e", "s">>
      [] s = "no" -> <<"n", "o">>
      [] s = "1" -> <<"1">>
      [] s = "0" -> <<"0">>
      [] s = "x" -> <<"x">>

Words == { Word(s) : s \in {"true", "True", "false", "FALSE", "yes", "no", "1", "0", "x"} }

RECURSIVE Concatenations(_)
Concatenations(n) ==
    IF n = 0 THEN {<<>>}
    ELSE { w \o rest : w \in Words, rest \in Concatenations(n - 1) }

ParamValues == UNION { Concatenations(n) : n \in 1..MaxWords }

\* The /i flag: characters compare by their lower case.
lowerCase(c) ==
    CASE c = "T" -> "t" [] c = "F" -> "f" [] c = "A" -> "a" [] c = "L" -> "l"
      [] c = "S" -> "s" [] c = "E" -> "e" [] OTHER -> c

lowerCaseAll(text) == [i \in 1..Len(text) |-> lowerCase(text[i])]

\* The word occurs in the text at position i.
occursAt(word, text, i) ==
    /\ i >= 1
    /\ i + Len(word) - 1 <= Len(text)
    /\ SubSeq(lowerCaseAll(text), i, i + Len(word) - 1) = word

occurs(word, text) == \E i \in 1..Len(text) : occursAt(word, text, i)
atStart(word, text) == occursAt(word, text, 1)
atEnd(word, text) == occursAt(word, text, Len(text) - Len(word) + 1)

\* /^true|false|1|0|yes|no$/i.test(text): ^ binds to the first alternative
\* and $ to the last.
isBooleanAnchored(text) == lowerCaseAll(text) \in
    { Word(s) : s \in {"true", "false", "1", "0", "yes", "no"} }

isBoolean(text) ==
    \/ atStart(Word("true"), text)
    \/ occurs(Word("false"), text)
    \/ occurs(Word("1"), text)
    \/ occurs(Word("0"), text)
    \/ occurs(Word("yes"), text)
    \/ atEnd(Word("no"), text)

\* /^true|1|yes$/i.test(text)
isTrue(text) ==
    \/ atStart(Word("true"), text)
    \/ occurs(Word("1"), text)
    \/ atEnd(Word("yes"), text)

\* The coercion code of a boolean parameter, for a string value: the 400
\* bad_request is thrown, or the parameter becomes a boolean.
coerceBoolean(text) ==
    IF ~isBoolean(text) THEN [error |-> "bad_request", value |-> FALSE]
    ELSE [error |-> "", value |-> isTrue(text)]

InitCoerce ==
    /\ maxDepth = DefaultMaxDepth
    /\ phase = "idle"
    /\ stack = <<>>
    /\ objs = <<>>
    /\ heap = <<>>
    /\ log = <<>>
    /\ client = NoClient
    /\ ChainUnused
    /\ \E text \in ParamValues :
         router = [pc |-> "request", param |-> text, error |-> "", value |-> FALSE]

\* validator.validate(req) on a request with the boolean parameter.
ValidateBoolean ==
    /\ router.pc = "request"
    /\ LET c == coerceBoolean(router.param)
       IN  router' = [router EXCEPT !.pc = "validated", !.error = c.error,
                                    !.value = c.value]
    /\ UNCHANGED <<dispatchVars, chainVars>>

NextCoerce == ValidateBoolean

SpecCoerce == InitCoerce /\ [][NextCoerce]_vars

\* C39 as stated: a string is accepted for a boolean parameter exactly when
\* it is, without regard to case, one of true, false, 1, 0, yes, no; true, 1
\* and yes become true, false, 0 and no become false; every other string is
\* rejected with 400 bad_request.
C39_Original ==
    router.pc = "validated" =>
        IF isBooleanAnchored(router.param)
        THEN /\ router.error = ""
             /\ router.value <=>
                   lowerCaseAll(router.param) \in { Word(s) : s \in {"true", "1", "yes"} }
        ELSE router.error = "bad_request"

\* ----------------------------------------------- lib/exports.js: Lifecycle
\* The most listeners subscribed in the model.
MaxListeners == 3

SubscribeFuncs == {"addListener", "on", "once", "prependListener", "prependOnceListener"}
EventNames == {"close", "other"}

\* The exported lifecycle object and the HTTP server: the flag, the `close`
\* listeners _setup has put on the server, the lifecycle object's own
\* listeners in calling order with the times each was called, and the times
\* the lifecycle object emitted `close`.
Lifecycle ==
    [_initialized |-> FALSE, forwarders |-> 0, listeners |-> <<>>,
     closed |-> FALSE, emitted |-> 0]

Listener(funcName, eventName) ==
    [funcName |-> funcName, eventName |-> eventName, calls |-> 0]

\* _setup: one more `close` listener on the server; the flag is left alone.
_setup(l) == [l EXCEPT !.forwarders = @ + 1]

\* EventEmitter.prototype[funcName].call(this, eventName, listener)
addTo(listeners, funcName, eventName) ==
    IF funcName \in {"prependListener", "prependOnceListener"}
    THEN <<Listener(funcName, eventName)>> \o listeners
    ELSE Append(listeners, Listener(funcName, eventName))

\* Lifecycle.prototype[funcName]
subscribe(l, funcName, eventName) ==
    LET s == IF ~l._initialized THEN _setup(l) ELSE l
    IN  [s EXCEPT !.listeners = addTo(@, funcName, eventName)]

\* this.emit('close') n times: a once listener is removed by its first call.
callsOf(listener, n) ==
    IF listener.eventName # "close" THEN 0
    ELSE IF listener.funcName \in {"once", "prependOnceListener"}
    THEN (IF n > 0 THEN 1 ELSE 0)
    ELSE n

InitLifecycle ==
    /\ maxDepth = DefaultMaxDepth
    /\ phase = "idle"
    /\ stack = <<>>
    /\ objs = <<>>
    /\ heap = <<>>
    /\ log = <<>>
    /\ client = NoClient
    /\ ChainUnused
    /\ router = Lifecycle

Subscribe ==
    /\ ~router.closed
    /\ Len(router.listeners) < MaxListeners
    /\ \E funcName \in SubscribeFuncs, eventName \in EventNames :
         router' = subscribe(router, funcName, eventName)
    /\ UNCHANGED <<dispatchVars, chainVars>>

\* The server emits `close`: every listener _setup put on it emits `close`
\* on the lifecycle object.
ServerClose ==
    /\ ~router.closed
    /\ router' = [router EXCEPT
           !.closed = TRUE,
           !.emitted = router.forwarders,
           !.listeners = [i \in 1..Len(router.listeners) |->
                             [router.listeners[i] EXCEPT
                                 !.calls = callsOf(router.listeners[i], router.forwarders)]]]
    /\ UNCHANGED <<dispatchVars, chainVars>>

NextLifecycle ==
    \/ Subscribe
    \/ ServerClose

SpecLifecycle == InitLifecycle /\ [][NextLifecycle]_vars

\* C40 as stated: however many listeners are subscribed through the exported
\* lifecycle object, forwarding from the HTTP server is installed at most
\* once, so one server `close` makes the lifecycle object emit `close`
\* exactly once and calls each `on` listener exactly once.
C40_Original ==
    /\ router.forwarders <= 1
    /\ (router.closed /\ router.listeners # <<>>) =>
          /\ router.emitted = 1
          /\ \A i \in 1..Len(router.listeners) :
                (router.listeners[i].funcName = "on"
                    /\ router.listeners[i].eventName = "close")
                  => router.listeners[i].calls = 1

====
